---------------------------- MODULE Spec2Model ----------------------------
(***************************************************************************)
(* code2dtree: the replay automaton RepeatedRunTreeGen (rrtg.py), the node *)
(* tree with its explored flags (node.py), and the exploration policies    *)
(* TreeExplorer / CachedTreeExplorer (treeExplorer.py) and                 *)
(* LinConstrTreeExplorer (linExpr.py, interval.py).                        *)
(*                                                                         *)
(* Conventions.  Python None is modelled by None (0) for node references,  *)
(* by NoKid (-1) for kidIndex and by the empty tuple << >> for an optional *)
(* number (an interval end point).  A Python list indexed from 0 is a      *)
(* sequence indexed from 1, so kids[i] is written kids[i + 1].  The Python *)
(* operators '≤' and '≥' are written "<=" and ">=".  Display-only node     *)
(* attributes (sexpr, printAttr, userData, explorerOutput) are left out.   *)
(***************************************************************************)
EXTENDS Integers, Sequences, FiniteSets, TLC

\* ------------------------------------------------------------------ bounds

\* The target functions of the model make at most MaxK decisions on a path.
MaxK == 3

\* The RepeatedRunTreeGen instances that exist, each with its own tree and its
\* own explorer.
Gens == {1, 2}

\* ------------------------------------------------------------- Python None

None == 0

NoKid == -1

BoolToInt(b) == IF b THEN 1 ELSE 0

\* A dict: a function whose domain is the set of keys present.
EmptyDict == [k \in {} |-> FALSE]

DictPut(d, k, v) == [j \in (DOMAIN d) \cup {k} |-> IF j = k THEN v ELSE d[j]]

\* The element of a one-element set.  {F(v) : v \in {e}} is F applied to the
\* value of e, with e evaluated once however often F uses it.
Only(S) == CHOOSE v \in S : TRUE

\* ------------------------------------------------------------ expressions

Var(name) == [type |-> "Var", name |-> name]

\* A literal operand (a Python number, not an Expr).
Lit(v) == [type |-> "Lit", val |-> v]

BinExpr(op, larg, rarg) == [type |-> "BinExpr", op |-> op, larg |-> larg, rarg |-> rarg]

UnExpr(op, arg) == [type |-> "UnExpr", op |-> op, arg |-> arg]

isExpr(e) == e.type # "Lit"

\* Expr.key(): the structural key.  A literal operand is its own key in the
\* code; here it is tagged so that keys of different shapes stay comparable.
RECURSIVE key(_)
key(e) ==
    CASE e.type = "Var" -> <<"Var", e.name>>
      [] e.type = "Lit" -> <<"Lit", e.val>>
      [] e.type = "BinExpr" -> <<"BinExpr", e.op, key(e.larg), key(e.rarg)>>
      [] e.type = "UnExpr" -> <<"UnExpr", e.op, key(e.arg)>>

\* Expr.simplifyAdd, the class attribute as the module sets it (line 11).
simplifyAdd == TRUE

\* Expr.__add__
Expr_add(self, other) ==
    IF simplifyAdd /\ ~isExpr(other) /\ other.val = 0
    THEN self
    ELSE BinExpr("+", self, other)

\* Expr.__radd__
Expr_radd(self, other) ==
    IF simplifyAdd /\ ~isExpr(other) /\ other.val = 0
    THEN self
    ELSE BinExpr("+", other, self)

\* Expr.__sub__
Expr_sub(self, other) ==
    IF simplifyAdd /\ ~isExpr(other) /\ other.val = 0
    THEN self
    ELSE BinExpr("-", self, other)

\* Expr.__rsub__
Expr_rsub(self, other) ==
    IF simplifyAdd /\ ~isExpr(other) /\ other.val = 0
    THEN UnExpr("-", self)
    ELSE BinExpr("-", other, self)

\* BIN_OPS: the operator symbol a BinExpr is given, and the name of the special
\* method that builds it ('≠' is written "!=").
BIN_OPS ==
    ("*" :> "mul") @@ ("@" :> "matmul") @@ ("/" :> "truediv") @@ ("//" :> "floordiv")
      @@ ("%" :> "mod") @@ ("**" :> "pow") @@ (">>" :> "lshift") @@ ("<<" :> "rshift")
      @@ ("&" :> "and") @@ ("^" :> "xor") @@ ("|" :> "or") @@ ("<" :> "lt")
      @@ ("<=" :> "le") @@ (">" :> "gt") @@ (">=" :> "ge") @@ ("==" :> "eq")
      @@ ("!=" :> "ne")

\* getBinMethods: binMethod
binMethod(op, self, other) == BinExpr(op, self, other)

\* getBinMethods: rbinMethod
rbinMethod(op, self, other) == BinExpr(op, other, self)

\* overloadOps: the symbol whose methods are set as __name__ and __rname__.
installed(name) == CHOOSE op \in DOMAIN BIN_OPS : BIN_OPS[op] = name

\* The special method Python calls on the left operand of a binary operator
\* of the program text, for the operators Expr overloads.
pyMethod ==
    ("+" :> "add") @@ ("-" :> "sub") @@ ("*" :> "mul") @@ ("@" :> "matmul")
      @@ ("/" :> "truediv") @@ ("//" :> "floordiv") @@ ("%" :> "mod") @@ ("**" :> "pow")
      @@ (">>" :> "rshift") @@ ("<<" :> "lshift") @@ ("&" :> "and") @@ ("^" :> "xor")
      @@ ("|" :> "or") @@ ("<" :> "lt") @@ ("<=" :> "le") @@ (">" :> "gt")
      @@ (">=" :> "ge") @@ ("==" :> "eq") @@ ("!=" :> "ne")

\* A comparison has no __r...__ method in Python: when the left operand does
\* not compare, the mirrored comparison of the right operand is called.
mirrored ==
    ("lt" :> "gt") @@ ("gt" :> "lt") @@ ("le" :> "ge") @@ ("ge" :> "le")
      @@ ("eq" :> "eq") @@ ("ne" :> "ne")

\* What the program text  l op r  evaluates to, one operand at least an
\* Expr: the method of the left operand when that is an Expr, else the
\* reflected (or mirrored) method of the right operand.
evalBin(op, l, r) ==
    IF isExpr(l)
    THEN CASE op = "+" -> Expr_add(l, r)
           [] op = "-" -> Expr_sub(l, r)
           [] OTHER -> binMethod(installed(pyMethod[op]), l, r)
    ELSE CASE op = "+" -> Expr_radd(r, l)
           [] op = "-" -> Expr_rsub(r, l)
           [] pyMethod[op] \in DOMAIN mirrored ->
                binMethod(installed(mirrored[pyMethod[op]]), r, l)
           [] OTHER -> rbinMethod(installed(pyMethod[op]), r, l)

\* ------------------------------------------------------------------ nodes

\* Node.__init__ / InternalNode.__init__: kids = [None] * nKids, explored False.
InternalNode(kind, expr, parent, nKids, b, verb) ==
    [kind |-> kind, expr |-> expr, parent |-> parent, explored |-> FALSE,
     kids |-> [i \in 1..nKids |-> None], b |-> b, verb |-> verb]

IfNode(expr, parent) == InternalNode("IfNode", expr, parent, 2, FALSE, "")

FrozenIfNode(expr, parent, b) == InternalNode("FrozenIfNode", expr, parent, 1, b, "")

\* InfoNode.get: a YieldNode or a CheckpointNode, told apart by the verb.
InfoNode(value, parent, verb) == InternalNode("InfoNode", value, parent, 1, FALSE, verb)

\* LeafNode.__init__: created explored, no kids.
ReturnNode(expr, parent) ==
    [kind |-> "ReturnNode", expr |-> expr, parent |-> parent, explored |-> TRUE,
     kids |-> << >>, b |-> FALSE, verb |-> ""]

CheckpointVerb == "print:"

YieldVerb == "yield"

\* kid is not None and kid.explored, for every slot of node n of heap ns.
kidStatuses(ns, n) ==
    [i \in 1..Len(ns[n].kids) |->
        ns[n].kids[i] # None /\ ns[ns[n].kids[i]].explored]

\* sum(kidStatuses)
SumStatuses(ks) == Cardinality({i \in 1..Len(ks) : ks[i]})

\* InternalNode.getKidsExploreStatus: (nEKids, nKids)
getKidsExploreStatus(ns, n) == <<SumStatuses(kidStatuses(ns, n)), Len(ns[n].kids)>>

\* setExploreStatusRec marking without looking at the kids (line 156 dropped).
RECURSIVE setExploreStatusRec_eager(_, _)
setExploreStatusRec_eager(ns, n) ==
    IF ns[n].parent # None
    THEN Only({setExploreStatusRec_eager(ns1, ns[n].parent) :
                   ns1 \in {[ns EXCEPT ![n].explored = TRUE]}})
    ELSE [ns EXCEPT ![n].explored = TRUE]

\* setExploreStatusRec that does not go on to the parent (lines 158-159 dropped).
setExploreStatusRec_shallow(ns, n) ==
    LET st == getKidsExploreStatus(ns, n) IN
    IF st[1] = st[2] THEN [ns EXCEPT ![n].explored = TRUE] ELSE ns

\* InternalNode.setExploreStatusRec
RECURSIVE setExploreStatusRec(_, _)
setExploreStatusRec(ns, n) ==
    LET st == getKidsExploreStatus(ns, n) IN
    IF st[1] = st[2]
    THEN IF ns[n].parent # None
         THEN Only({setExploreStatusRec(ns1, ns[n].parent) :
                        ns1 \in {[ns EXCEPT ![n].explored = TRUE]}})
         ELSE [ns EXCEPT ![n].explored = TRUE]
    ELSE ns

\* --------------------------------------------------------------- Interval
\* Interval(beg, end, begClosed, endClosed); an end point is << >> (None:
\* infinite) or <<v>>.

NoneNum == << >>

Num(v) == <<v>>

Interval(beg, end, begClosed, endClosed) ==
    [beg |-> beg, end |-> end, begClosed |-> begClosed, endClosed |-> endClosed]

\* Interval.contains
contains(self, x) ==
    LET leftIn == self.beg = NoneNum \/ x > self.beg[1]
                    \/ (x >= self.beg[1] /\ self.begClosed)
        rightIn == self.end = NoneNum \/ x < self.end[1]
                    \/ (x <= self.end[1] /\ self.endClosed)
    IN leftIn /\ rightIn

\* Interval.isEmpty with the test of the brackets at equal end points left out.
isEmpty_crossed(self) ==
    self.beg # NoneNum /\ self.end # NoneNum /\ self.beg[1] > self.end[1]

\* Interval.isEmpty
isEmpty(self) ==
    self.beg # NoneNum /\ self.end # NoneNum
      /\ (self.beg[1] > self.end[1]
            \/ (self.beg[1] >= self.end[1] /\ ~(self.begClosed /\ self.endClosed)))

\* Interval.intersect
intersect(self, other) ==
    LET lo == IF self.beg = NoneNum
              THEN IF other.beg = NoneNum
                   THEN <<NoneNum, self.begClosed /\ other.begClosed>>
                   ELSE <<other.beg, other.begClosed>>
              ELSE IF other.beg = NoneNum \/ other.beg[1] < self.beg[1]
              THEN <<self.beg, self.begClosed>>
              ELSE IF self.beg[1] < other.beg[1]
              THEN <<other.beg, other.begClosed>>
              ELSE <<self.beg, self.begClosed /\ other.begClosed>>
        hi == IF self.end = NoneNum
              THEN IF other.end = NoneNum
                   THEN <<NoneNum, self.endClosed /\ other.endClosed>>
                   ELSE <<other.end, other.endClosed>>
              ELSE IF other.end = NoneNum \/ self.end[1] < other.end[1]
              THEN <<self.end, self.endClosed>>
              ELSE IF other.end[1] < self.end[1]
              THEN <<other.end, other.endClosed>>
              ELSE <<self.end, self.endClosed /\ other.endClosed>>
    IN Interval(lo[1], hi[1], lo[2], hi[2])

\* Interval.isDisjoint
isDisjoint(self, other) == isEmpty(intersect(self, other))

\* ------------------------------------------------------ linear constraints

\* FLIP_OP: x op y iff y FLIP_OP[op] x
FLIP_OP == (">" :> "<") @@ (">=" :> "<=") @@ ("<" :> ">") @@ ("<=" :> ">=")
             @@ ("==" :> "==")

\* NEG_OP: x op y iff not(x NEG_OP[op] y); it has no entry for '=='
NEG_OP == (">" :> "<=") @@ (">=" :> "<") @@ ("<" :> ">=") @@ ("<=" :> ">")

\* CONVERT_OP
CONVERT_OP ==
    (<<"<=", "strict">> :> "<") @@ (<<"<", "strict">> :> "<")
      @@ (<<">=", "strict">> :> ">") @@ (<<">", "strict">> :> ">")
      @@ (<<"<", "lenient">> :> "<=") @@ (<<"<=", "lenient">> :> "<=")
      @@ (<<">", "lenient">> :> ">=") @@ (<<">=", "lenient">> :> ">=")
      @@ (<<"==", "lenient">> :> "==")

\* What a dict lookup that raises KeyError yields in place of an operator.
KeyError == "KeyError"

\* convertOp returning the operator as written in every mode.
convertOp_asWritten(op, ineqMode) == op

\* convertOp
convertOp(op, ineqMode) ==
    IF ineqMode = "exact"
    THEN op
    ELSE IF <<op, ineqMode>> \in DOMAIN CONVERT_OP
    THEN CONVERT_OP[<<op, ineqMode>>]
    ELSE KeyError

\* NEG_OP[op]
negOp(op) == IF op \in DOMAIN NEG_OP THEN NEG_OP[op] ELSE KeyError

\* convertOp(NEG_OP[op], ineqMode)
convertNegOp(op, ineqMode) ==
    IF negOp(op) = KeyError THEN KeyError ELSE convertOp(negOp(op), ineqMode)

\* The result of parseAffineHelper: the constant it returns and the
\* coefficient dict it has updated, or the exception it raises.
Affine(val, d) == [val |-> val, d |-> d, err |-> ""]

AffineRaise(e) == [val |-> 0, d |-> EmptyDict, err |-> e]

\* coeffDict[name] += coeffMul, or = coeffMul on KeyError
addCoeff(coeffDict, name, coeffMul) ==
    IF name \in DOMAIN coeffDict
    THEN [coeffDict EXCEPT ![name] = @ + coeffMul]
    ELSE DictPut(coeffDict, name, coeffMul)

\* lval + r, where r is the result of the second parseAffineHelper call
affineSum(lval, r) == IF r.err # "" THEN r ELSE Affine(lval + r.val, r.d)

\* parseAffineHelper (AggExpr operands are not built by the target functions
\* of this model).  A sum or difference parses its left operand first; l is
\* that result and the right operand goes on with the dict l has updated.
RECURSIVE parseAffineHelper(_, _, _)
RECURSIVE affineThen(_, _, _)
affineThen(l, rarg, coeffMul) ==
    IF l.err # ""
    THEN l
    ELSE Only({affineSum(l.val, r) : r \in {parseAffineHelper(rarg, coeffMul, l.d)}})

parseAffineHelper(expr, coeffMul, coeffDict) ==
    CASE expr.type = "Var" -> Affine(0, addCoeff(coeffDict, expr.name, coeffMul))
      [] expr.type = "UnExpr" ->
           IF expr.op = "+"
           THEN parseAffineHelper(expr.arg, coeffMul, coeffDict)
           ELSE IF expr.op = "-"
           THEN parseAffineHelper(expr.arg, -coeffMul, coeffDict)
           ELSE AffineRaise("ValueError")
      [] expr.type = "BinExpr" ->
           IF expr.op = "+"
           THEN Only({affineThen(l, expr.rarg, coeffMul) :
                          l \in {parseAffineHelper(expr.larg, coeffMul, coeffDict)}})
           ELSE IF expr.op = "-"
           THEN Only({affineThen(l, expr.rarg, -coeffMul) :
                          l \in {parseAffineHelper(expr.larg, coeffMul, coeffDict)}})
           ELSE IF expr.op = "*"
           THEN IF isExpr(expr.larg) /\ isExpr(expr.rarg)
                THEN AffineRaise("ValueError")
                ELSE IF isExpr(expr.larg)
                THEN parseAffineHelper(expr.larg, coeffMul * expr.rarg.val, coeffDict)
                ELSE IF isExpr(expr.rarg)
                THEN parseAffineHelper(expr.rarg, coeffMul * expr.larg.val, coeffDict)
                ELSE AffineRaise("ValueError")
           ELSE AffineRaise("ValueError")
      [] expr.type = "Lit" -> Affine(expr.val * coeffMul, coeffDict)
      [] OTHER -> AffineRaise("ValueError")

\* argReprMin over the keys of a coefficient dict: the variable whose repr is
\* smallest.  Variable i stands for the name 'x<i>'; for the single-digit
\* indices of this model the string order of the reprs is the order of i.
argReprMin(a) == CHOOSE x \in a : \A y \in a : x <= y

\* canonicalizeDict that never flips.
canonicalizeDict_noFlip(d) == <<d, FALSE>>

\* canonicalizeDict: (dict, flip)
canonicalizeDict(d) ==
    IF DOMAIN d = {}
    THEN <<d, FALSE>>
    ELSE IF d[argReprMin(DOMAIN d)] >= 0
    THEN <<d, FALSE>>
    ELSE <<[k \in DOMAIN d |-> -d[k]], TRUE>>

LinCmpExpr(coeffMap, op, rhs) ==
    [type |-> "LinCmpExpr", coeffMap |-> coeffMap, op |-> op, rhs |-> rhs]

Parsed(lin) == [lin |-> lin, err |-> ""]

ParseRaise(e) == [lin |-> LinCmpExpr(EmptyDict, "", 0), err |-> e]

\* del coeffDict[k] for every k with coeffDict[k] == 0
delZeroKeys(coeffDict) ==
    [k \in {j \in DOMAIN coeffDict : coeffDict[j] # 0} |-> coeffDict[k]]

\* parseLinCmpExpr, lines 176-181: expr is a LinCmpExpr, newOp its converted op
reconvert(expr, newOp) ==
    IF newOp = KeyError
    THEN ParseRaise("KeyError")
    ELSE Parsed(LinCmpExpr(expr.coeffMap, newOp, expr.rhs))

\* Lines 192-194 flipping the constant and leaving the operator as it is.
flipped_keepsOp(canon, op, rhs) ==
    IF canon[2]
    THEN Parsed(LinCmpExpr(canon[1], op, -rhs))
    ELSE Parsed(LinCmpExpr(canon[1], op, rhs))

\* parseLinCmpExpr, lines 192-194: canon is canonicalizeDict's (coeffMap, flip)
flipped(canon, op, rhs) ==
    IF canon[2]
    THEN Parsed(LinCmpExpr(canon[1], FLIP_OP[op], -rhs))
    ELSE Parsed(LinCmpExpr(canon[1], op, rhs))

\* parseLinCmpExpr, lines 184-194: a holds the two parseAffineHelper calls'
\* sum and dict, op the converted operator
canonical(a, op) ==
    IF a.err # "" THEN ParseRaise(a.err)
    ELSE IF op = KeyError THEN ParseRaise("KeyError")
    ELSE Only({flipped(canon, op, -a.val) : canon \in {canonicalizeDict(delZeroKeys(a.d))}})

\* parseLinCmpExpr
parseLinCmpExpr(expr, ineqMode) ==
    IF expr.type = "LinCmpExpr"
    THEN reconvert(expr, convertOp(expr.op, ineqMode))
    ELSE IF expr.type = "BinExpr" /\ expr.op \in DOMAIN FLIP_OP
    THEN Only({canonical(a, convertOp(expr.op, ineqMode)) :
                   a \in {Only({affineThen(l, expr.rarg, -1) :
                                    l \in {parseAffineHelper(expr.larg, 1, EmptyDict)}})}})
    ELSE ParseRaise("ValueError")

\* opToInterval
opToInterval(op, v) ==
    IF op \in {"<", "<="}
    THEN Interval(NoneNum, Num(v), FALSE, op = "<=")
    ELSE Interval(Num(v), NoneNum, op = ">=", FALSE)

\* evalOp, for the operators parseLinCmpExpr lets through
evalOp(larg, op, rarg) ==
    CASE op = "<" -> larg < rarg
      [] op = ">" -> larg > rarg
      [] op = ">=" -> larg >= rarg
      [] op = "<=" -> larg <= rarg
      [] op = "==" -> larg = rarg

\* frozenset(coeffDict.items())
items(coeffDict) == {<<k, coeffDict[k]>> : k \in DOMAIN coeffDict}

\* A boolean given where a constraint is expected (addConstrToDict takes
\* Expr | bool).
BoolConstr(v) == [type |-> "Bool", val |-> v]

DictOk(d) == [d |-> d, err |-> ""]

DictRaise(d, e) == [d |-> d, err |-> e]

\* addInterval storing the empty intersection before it raises.
addInterval_storesEmpty(d, coeffs, newInt) ==
    IF coeffs \notin DOMAIN d
    THEN DictOk(DictPut(d, coeffs, newInt))
    ELSE IF isEmpty(intersect(d[coeffs], newInt))
    THEN DictRaise(DictPut(d, coeffs, intersect(d[coeffs], newInt)), "Exception")
    ELSE DictOk(DictPut(d, coeffs, intersect(d[coeffs], newInt)))

\* addConstrToDict, lines 236-245: the interval newInt is added for coeffs
addInterval(d, coeffs, newInt) ==
    IF coeffs \notin DOMAIN d
    THEN DictOk(DictPut(d, coeffs, newInt))
    ELSE IF isEmpty(intersect(d[coeffs], newInt))
    THEN DictRaise(d, "Exception")
    ELSE DictOk(DictPut(d, coeffs, intersect(d[coeffs], newInt)))

\* addConstrToDict, lines 233-245: op is the operator asserted (negated and
\* converted when b is false)
addOp(lin, op, d) ==
    IF op = KeyError
    THEN DictRaise(d, "KeyError")
    ELSE addInterval(d, items(lin.coeffMap), opToInterval(op, lin.rhs))

\* addConstrToDict without the test for an empty coeffDict (lines 228-232):
\* the constant comparison is stored like any other.
addParsed_storesConstant(p, b, d, ineqMode) ==
    IF p.err # "" THEN DictRaise(d, p.err)
    ELSE addOp(p.lin, IF ~b THEN convertNegOp(p.lin.op, ineqMode) ELSE p.lin.op, d)

\* addConstrToDict, lines 227-245: p is parseLinCmpExpr's result
addParsed(p, b, d, ineqMode) ==
    IF p.err # "" THEN DictRaise(d, p.err)
    ELSE IF DOMAIN p.lin.coeffMap = {}
    THEN IF evalOp(0, p.lin.op, p.lin.rhs) # b
         THEN DictRaise(d, "Exception")
         ELSE DictOk(d)
    ELSE addOp(p.lin, IF ~b THEN convertNegOp(p.lin.op, ineqMode) ELSE p.lin.op, d)

\* addConstrToDict
addConstrToDict(expr, b, d, ineqMode) ==
    IF expr.type = "Bool"
    THEN IF expr.val # b THEN DictRaise(d, "Exception") ELSE DictOk(d)
    ELSE Only({addParsed(p, b, d, ineqMode) : p \in {parseLinCmpExpr(expr, ineqMode)}})

\* LinConstrTreeExplorer.__init__, the loop over baseConstraintsList; r is the
\* dict built so far
RECURSIVE addAllConstr(_, _, _)
addAllConstr(list, r, ineqMode) ==
    IF list = << >> \/ r.err # ""
    THEN r
    ELSE addAllConstr(Tail(list), addConstrToDict(Head(list), TRUE, r.d, ineqMode),
                      ineqMode)

\* baseConstraintsDict as __init__ builds it, or the exception it raises
baseDictOf(list, ineqMode) == addAllConstr(list, DictOk(EmptyDict), ineqMode)

\* -------------------------------------------------------------- explorers
\* An explorer x is the record [kind, cache, ineqMode, baseConstraintsDict,
\* constraints, policy, returned]; each class uses its own fields.  An
\* operation yields the explorer as it leaves it, with the exception it
\* raises ("" when it returns).

XOk(x) == [x |-> x, err |-> ""]

XRaise(x, e) == [x |-> x, err |-> e]

Answer(b, checkOther, x) == [b |-> b, checkOther |-> checkOther, x |-> x, err |-> ""]

AnswerRaise(x, e) == [b |-> FALSE, checkOther |-> FALSE, x |-> x, err |-> e]

\* TreeExplorer.decideIf answering (False, False, None).
TreeExplorer_decideIf_frozen(x, expr) == Answer(FALSE, FALSE, x)

\* TreeExplorer.decideIf answering (True, True, None).
TreeExplorer_decideIf_trueFirst(x, expr) == Answer(TRUE, TRUE, x)

\* TreeExplorer.decideIf
TreeExplorer_decideIf(x, expr) == Answer(FALSE, TRUE, x)

\* CachedTreeExplorer.decideIf
CachedTreeExplorer_decideIf(x, expr) ==
    LET k == key(expr) IN
    IF k \in DOMAIN x.cache
    THEN Answer(x.cache[k], FALSE, x)
    ELSE Answer(FALSE, TRUE, [x EXCEPT !.cache = DictPut(x.cache, k, FALSE)])

\* CachedTreeExplorer.noteIf
CachedTreeExplorer_noteIf(x, expr, b) ==
    XOk([x EXCEPT !.cache = DictPut(x.cache, key(expr), b)])

\* CachedTreeExplorer.noteReturn keeping the memo.
CachedTreeExplorer_noteReturn_keep(x) == x

\* CachedTreeExplorer.noteReturn
CachedTreeExplorer_noteReturn(x) == [x EXCEPT !.cache = EmptyDict]

\* LinConstrTreeExplorer.noteIf; r is addConstrToDict's result
noted(x, r) == [x |-> [x EXCEPT !.constraints = r.d], err |-> r.err]

LinConstrTreeExplorer_noteIf(x, expr, b) ==
    Only({noted(x, r) : r \in {addConstrToDict(expr, b, x.constraints, x.ineqMode)}})

\* self.constraints[coeffs] = interval
setConstr(x, coeffs, interval) ==
    [x EXCEPT !.constraints = DictPut(x.constraints, coeffs, interval)]

\* decideOld answering False where only True is left.
decideOld_forcedFalse(x, coeffs, oldInt, falseInt2, trueInt2) ==
    IF isEmpty(oldInt) THEN AnswerRaise(x, "AssertionError")
    ELSE IF isEmpty(falseInt2)
    THEN Answer(FALSE, FALSE, setConstr(x, coeffs, trueInt2))
    ELSE Answer(FALSE, ~isEmpty(trueInt2), setConstr(x, coeffs, falseInt2))

\* decideOld leaving the other side open where only True is left.
decideOld_forcedOpen(x, coeffs, oldInt, falseInt2, trueInt2) ==
    IF isEmpty(oldInt) THEN AnswerRaise(x, "AssertionError")
    ELSE IF isEmpty(falseInt2)
    THEN Answer(TRUE, TRUE, setConstr(x, coeffs, trueInt2))
    ELSE Answer(FALSE, ~isEmpty(trueInt2), setConstr(x, coeffs, falseInt2))

\* decideOld always leaving the True side for a later run.
decideOld_alwaysOther(x, coeffs, oldInt, falseInt2, trueInt2) ==
    IF isEmpty(oldInt) THEN AnswerRaise(x, "AssertionError")
    ELSE IF isEmpty(falseInt2)
    THEN Answer(TRUE, FALSE, setConstr(x, coeffs, trueInt2))
    ELSE Answer(FALSE, TRUE, setConstr(x, coeffs, falseInt2))

\* decideOld without the test of falseInt2 (lines 290-292 dropped): falseInt2
\* is stored even when it is empty.
decideOld_storesFalse(x, coeffs, oldInt, falseInt2, trueInt2) ==
    IF isEmpty(oldInt) THEN AnswerRaise(x, "AssertionError")
    ELSE Answer(FALSE, ~isEmpty(trueInt2), setConstr(x, coeffs, falseInt2))

\* LinConstrTreeExplorer.decideIf, lines 288-295
decideOld(x, coeffs, oldInt, falseInt2, trueInt2) ==
    IF isEmpty(oldInt) THEN AnswerRaise(x, "AssertionError")
    ELSE IF isEmpty(falseInt2)
    THEN Answer(TRUE, FALSE, setConstr(x, coeffs, trueInt2))
    ELSE Answer(FALSE, ~isEmpty(trueInt2), setConstr(x, coeffs, falseInt2))

\* decideInt looking at the interval of some other linear combination when
\* none is stored for coeffs.
decideInt_anyKey(x, coeffs, falseInt, trueInt) ==
    IF DOMAIN x.constraints = {}
    THEN Answer(FALSE, TRUE, setConstr(x, coeffs, falseInt))
    ELSE decideOld(x, coeffs,
                   x.constraints[IF coeffs \in DOMAIN x.constraints THEN coeffs
                                 ELSE CHOOSE k \in DOMAIN x.constraints : TRUE],
                   intersect(x.constraints[IF coeffs \in DOMAIN x.constraints THEN coeffs
                                           ELSE CHOOSE k \in DOMAIN x.constraints : TRUE],
                             falseInt),
                   intersect(x.constraints[IF coeffs \in DOMAIN x.constraints THEN coeffs
                                           ELSE CHOOSE k \in DOMAIN x.constraints : TRUE],
                             trueInt))

\* LinConstrTreeExplorer.decideIf, lines 284-295
decideInt(x, coeffs, falseInt, trueInt) ==
    IF coeffs \notin DOMAIN x.constraints
    THEN Answer(FALSE, TRUE, setConstr(x, coeffs, falseInt))
    ELSE decideOld(x, coeffs, x.constraints[coeffs],
                   intersect(x.constraints[coeffs], falseInt),
                   intersect(x.constraints[coeffs], trueInt))

\* LinConstrTreeExplorer.decideIf, lines 280-295; negop is
\* convertOp(NEG_OP[op], self.ineqMode)
decideOp(x, lin, negop) ==
    IF negop = KeyError
    THEN AnswerRaise(x, "KeyError")
    ELSE decideInt(x, items(lin.coeffMap), opToInterval(negop, lin.rhs),
                   opToInterval(lin.op, lin.rhs))

\* decideParsed dropping the constraints of the path before it raises.
decideParsed_clears(x, p) ==
    IF p.err # "" THEN AnswerRaise([x EXCEPT !.constraints = x.baseConstraintsDict], p.err)
    ELSE IF DOMAIN p.lin.coeffMap = {}
    THEN Answer(evalOp(0, p.lin.op, p.lin.rhs), FALSE, x)
    ELSE decideOp(x, p.lin, convertNegOp(p.lin.op, x.ineqMode))

\* LinConstrTreeExplorer.decideIf, lines 276-295; p is parseLinCmpExpr's result
decideParsed(x, p) ==
    IF p.err # "" THEN AnswerRaise(x, p.err)
    ELSE IF DOMAIN p.lin.coeffMap = {}
    THEN Answer(evalOp(0, p.lin.op, p.lin.rhs), FALSE, x)
    ELSE decideOp(x, p.lin, convertNegOp(p.lin.op, x.ineqMode))

\* LinConstrTreeExplorer.decideIf
LinConstrTreeExplorer_decideIf(x, expr) ==
    Only({decideParsed(x, p) : p \in {parseLinCmpExpr(expr, x.ineqMode)}})

\* LinConstrTreeExplorer.noteReturn keeping the constraints of the run.
LinConstrTreeExplorer_noteReturn_keep(x) == x

\* LinConstrTreeExplorer.noteReturn
LinConstrTreeExplorer_noteReturn(x) == [x EXCEPT !.constraints = x.baseConstraintsDict]

\* A user-written TreeExplorer subclass (the policy interface is open): it
\* answers policy[1] until the first noteReturn and policy[2] afterwards,
\* each any pair (value, exploreOtherSide).
UserTreeExplorer_decideIf(x, expr) ==
    LET a == IF x.returned THEN x.policy[2] ELSE x.policy[1] IN
    Answer(a[1], a[2], x)

UserTreeExplorer_noteReturn(x) == [x EXCEPT !.returned = TRUE]

\* self.explorer.decideIf(expr), dispatched on the explorer's class.
explorerDecideIf(x, expr) ==
    CASE x.kind = "TreeExplorer" -> TreeExplorer_decideIf(x, expr)
      [] x.kind = "CachedTreeExplorer" -> CachedTreeExplorer_decideIf(x, expr)
      [] x.kind = "LinConstrTreeExplorer" -> LinConstrTreeExplorer_decideIf(x, expr)
      [] x.kind = "UserTreeExplorer" -> UserTreeExplorer_decideIf(x, expr)

\* self.explorer.noteIf(expr, b); TreeExplorer.noteIf does nothing.
explorerNoteIf(x, expr, b) ==
    CASE x.kind = "CachedTreeExplorer" -> CachedTreeExplorer_noteIf(x, expr, b)
      [] x.kind = "LinConstrTreeExplorer" -> LinConstrTreeExplorer_noteIf(x, expr, b)
      [] OTHER -> XOk(x)

\* self.explorer.noteReturn(expr); TreeExplorer.noteReturn does nothing.
explorerNoteReturn(x) ==
    CASE x.kind = "CachedTreeExplorer" -> CachedTreeExplorer_noteReturn(x)
      [] x.kind = "LinConstrTreeExplorer" -> LinConstrTreeExplorer_noteReturn(x)
      [] x.kind = "UserTreeExplorer" -> UserTreeExplorer_noteReturn(x)
      [] OTHER -> x

\* ----------------------------------------------------- RepeatedRunTreeGen
\* A generator s is the record [nodes, root, parent, current, kidIndex]; nodes
\* is the heap of the Node objects it has created, a node's id is its index.

\* RepeatedRunTreeGen.__init__
NewGen == [nodes |-> << >>, root |-> None, parent |-> None, current |-> None,
           kidIndex |-> NoKid]

\* finished without the test of root.explored.
finished_rootOnly(s) == s.root # None

\* RepeatedRunTreeGen.finished
finished(s) == s.root # None /\ s.nodes[s.root].explored

\* RepeatedRunTreeGen.goDown
goDown(s, i) ==
    [s EXCEPT !.parent = s.current,
              !.current = s.nodes[s.current].kids[i + 1],
              !.kidIndex = i]

\* The assignment parent.kids[kidIndex] = node with the index dropped: slot 0.
attach_slot0(s, ns, id) ==
    IF s.parent # None
    THEN [s EXCEPT !.nodes = [ns EXCEPT ![s.parent].kids[1] = id]]
    ELSE [s EXCEPT !.nodes = ns, !.root = id]

\* parent.kids[kidIndex] = node, or root = node when there is no parent; id is
\* the new node's place in the heap ns.
attach(s, ns, id) ==
    IF s.parent # None
    THEN [s EXCEPT !.nodes = [ns EXCEPT ![s.parent].kids[s.kidIndex + 1] = id]]
    ELSE [s EXCEPT !.nodes = ns, !.root = id]

\* createAndGoDown without self.current = None: the generator stands on the
\* node it has just created.
createAndGoDown_stays(s, node, i) ==
    LET id == Len(s.nodes) + 1
        s1 == attach(s, Append(s.nodes, node), id)
    IN [s1 EXCEPT !.parent = id, !.current = id, !.kidIndex = i]

\* RepeatedRunTreeGen.createAndGoDown
createAndGoDown(s, node, i) ==
    LET id == Len(s.nodes) + 1
        s1 == attach(s, Append(s.nodes, node), id)
    IN [s1 EXCEPT !.parent = id, !.current = None, !.kidIndex = i]

\* What a call into the generator leaves behind: the generator, its explorer,
\* the value returned and the exception raised ("" when it returns).
Outcome(s, x, ret, err) == [gen |-> s, explorer |-> x, ret |-> ret, err |-> err]

\* decideIf, lines 57-59 and 62-64: n is what self.explorer.noteIf(expr, b)
\* leaves; then self.goDown(i); return b
descend(s, n, b, i) ==
    IF n.err # ""
    THEN Outcome(s, n.x, FALSE, n.err)
    ELSE Outcome(goDown(s, i), n.x, b, "")

\* Lines 57-59 and 62-64 without self.explorer.noteIf(expr, b).
replayDown_silent(s, x, expr, b, i) == Outcome(goDown(s, i), x, b, "")

replayDown(s, x, expr, b, i) ==
    Only({descend(s, n, b, i) : n \in {explorerNoteIf(x, expr, b)}})

\* Lines 68-83 without the check of checkOther (lines 70-72 dropped).
settle_noRaise(s, expr, a) ==
    IF a.err # ""
    THEN Outcome(s, a.x, FALSE, a.err)
    ELSE IF s.current # None
    THEN Outcome(goDown(s, BoolToInt(a.b)), a.x, a.b, "")
    ELSE Outcome(createAndGoDown(s,
                    IF a.checkOther
                    THEN IfNode(expr, s.parent)
                    ELSE FrozenIfNode(expr, s.parent, a.b),
                    IF a.checkOther THEN BoolToInt(a.b) ELSE 0),
                 a.x, a.b, "")

\* Lines 74-83 with createAndGoDown(node, b) for either kind of node.
settle_slotB(s, expr, a) ==
    IF a.err # ""
    THEN Outcome(s, a.x, FALSE, a.err)
    ELSE IF s.current # None
    THEN IF ~a.checkOther
         THEN Outcome(s, a.x, FALSE, "ValueError")
         ELSE Outcome(goDown(s, BoolToInt(a.b)), a.x, a.b, "")
    ELSE Outcome(createAndGoDown(s,
                    IF a.checkOther
                    THEN IfNode(expr, s.parent)
                    ELSE FrozenIfNode(expr, s.parent, a.b),
                    BoolToInt(a.b)),
                 a.x, a.b, "")

\* Lines 74-83 returning not b to the target function.
settle_negated(s, expr, a) ==
    IF a.err # ""
    THEN Outcome(s, a.x, FALSE, a.err)
    ELSE IF s.current # None
    THEN IF ~a.checkOther
         THEN Outcome(s, a.x, FALSE, "ValueError")
         ELSE Outcome(goDown(s, BoolToInt(a.b)), a.x, a.b, "")
    ELSE Outcome(createAndGoDown(s,
                    IF a.checkOther
                    THEN IfNode(expr, s.parent)
                    ELSE FrozenIfNode(expr, s.parent, a.b),
                    IF a.checkOther THEN BoolToInt(a.b) ELSE 0),
                 a.x, ~a.b, "")

\* decideIf, lines 68-83: a is the explorer's answer (b, checkOther)
settle(s, expr, a) ==
    IF a.err # ""
    THEN Outcome(s, a.x, FALSE, a.err)
    ELSE IF s.current # None
    THEN IF ~a.checkOther
         THEN Outcome(s, a.x, FALSE, "ValueError")
         ELSE Outcome(goDown(s, BoolToInt(a.b)), a.x, a.b, "")
    ELSE Outcome(createAndGoDown(s,
                    IF a.checkOther
                    THEN IfNode(expr, s.parent)
                    ELSE FrozenIfNode(expr, s.parent, a.b),
                    IF a.checkOther THEN BoolToInt(a.b) ELSE 0),
                 a.x, a.b, "")

\* decideIf, lines 66-83: the explorer is consulted
consult(s, x, expr) == Only({settle(s, expr, a) : a \in {explorerDecideIf(x, expr)}})

\* decideIf without the assertion of line 53.
decideIf_noAssert(s, x, expr) ==
    IF s.current # None
    THEN LET cur == s.nodes[s.current]
             ks == kidStatuses(s.nodes, s.current)
         IN IF cur.kind \notin {"IfNode", "FrozenIfNode"}
            THEN Outcome(s, x, FALSE, "AssertionError")
            ELSE IF cur.kind = "IfNode"
            THEN IF ks[BoolToInt(~FALSE) + 1]
                 THEN replayDown(s, x, expr, FALSE, 0)
                 ELSE IF ks[BoolToInt(~TRUE) + 1]
                 THEN replayDown(s, x, expr, TRUE, 1)
                 ELSE consult(s, x, expr)
            ELSE replayDown(s, x, expr, cur.b, 0)
    ELSE consult(s, x, expr)

\* decideIf handing False back at every FrozenIfNode (line 61 dropped).
decideIf_frozenFalse(s, x, expr) ==
    IF s.current # None
    THEN LET cur == s.nodes[s.current]
             ks == kidStatuses(s.nodes, s.current)
         IN IF cur.kind \notin {"IfNode", "FrozenIfNode"}
            THEN Outcome(s, x, FALSE, "AssertionError")
            ELSE IF ~(SumStatuses(ks) < Len(ks))
            THEN Outcome(s, x, FALSE, "AssertionError")
            ELSE IF cur.kind = "IfNode"
            THEN IF ks[BoolToInt(~FALSE) + 1]
                 THEN replayDown(s, x, expr, FALSE, 0)
                 ELSE IF ks[BoolToInt(~TRUE) + 1]
                 THEN replayDown(s, x, expr, TRUE, 1)
                 ELSE consult(s, x, expr)
            ELSE replayDown(s, x, expr, FALSE, 0)
    ELSE consult(s, x, expr)

\* RepeatedRunTreeGen.decideIf
decideIf(s, x, expr) ==
    IF s.current # None
    THEN LET cur == s.nodes[s.current]
             ks == kidStatuses(s.nodes, s.current)
         IN IF cur.kind \notin {"IfNode", "FrozenIfNode"}
            THEN Outcome(s, x, FALSE, "AssertionError")
            ELSE IF ~(SumStatuses(ks) < Len(ks))
            THEN Outcome(s, x, FALSE, "AssertionError")
            ELSE IF cur.kind = "IfNode"
            THEN IF ks[BoolToInt(~FALSE) + 1]
                 THEN replayDown(s, x, expr, FALSE, 0)
                 ELSE IF ks[BoolToInt(~TRUE) + 1]
                 THEN replayDown(s, x, expr, TRUE, 1)
                 ELSE consult(s, x, expr)
            ELSE replayDown(s, x, expr, cur.b, 0)
    ELSE consult(s, x, expr)

\* addInfo with the explorer told that a value was reported, as it is told of
\* a return.
addInfo_notifies(s, x, v, verb) ==
    IF s.current # None
    THEN IF s.nodes[s.current].kind = "InfoNode" /\ s.nodes[s.current].verb = verb
         THEN Outcome(goDown(s, 0), explorerNoteReturn(x), FALSE, "")
         ELSE Outcome(s, x, FALSE, "AssertionError")
    ELSE Outcome(createAndGoDown(s, InfoNode(v, s.parent, verb), 0),
                 explorerNoteReturn(x), FALSE, "")

\* RepeatedRunTreeGen.addInfo
addInfo(s, x, v, verb) ==
    IF s.current # None
    THEN IF s.nodes[s.current].kind = "InfoNode" /\ s.nodes[s.current].verb = verb
         THEN Outcome(goDown(s, 0), x, FALSE, "")
         ELSE Outcome(s, x, FALSE, "AssertionError")
    ELSE Outcome(createAndGoDown(s, InfoNode(v, s.parent, verb), 0), x, FALSE, "")

\* Lines 102-107 without self.current = self.root (line 105 dropped).
propagate_noReset(s1, x, parent) ==
    Outcome([s1 EXCEPT !.nodes = IF parent # None
                                 THEN setExploreStatusRec(s1.nodes, parent)
                                 ELSE s1.nodes,
                       !.parent = None, !.kidIndex = NoKid],
            explorerNoteReturn(x), FALSE, "")

\* Lines 102-106 without the call of self.explorer.noteReturn (line 107
\* dropped).
propagate_noNote(s1, x, parent) ==
    Outcome([s1 EXCEPT !.nodes = IF parent # None
                                 THEN setExploreStatusRec(s1.nodes, parent)
                                 ELSE s1.nodes,
                       !.parent = None, !.current = s1.root, !.kidIndex = NoKid],
            x, FALSE, "")

\* reportEnd, lines 102-107: s1 is the generator with the ReturnNode attached
propagate(s1, x, parent) ==
    Outcome([s1 EXCEPT !.nodes = IF parent # None
                                 THEN setExploreStatusRec(s1.nodes, parent)
                                 ELSE s1.nodes,
                       !.parent = None, !.current = s1.root, !.kidIndex = NoKid],
            explorerNoteReturn(x), FALSE, "")

\* reportEnd without the assertion of line 94.
reportEnd_noAssert(s, x, expr) ==
    propagate(attach(s, Append(s.nodes, ReturnNode(expr, s.parent)), Len(s.nodes) + 1),
              x, s.parent)

\* RepeatedRunTreeGen.reportEnd
reportEnd(s, x, expr) ==
    IF s.current # None
    THEN Outcome(s, x, FALSE, "AssertionError")
    ELSE propagate(attach(s, Append(s.nodes, ReturnNode(expr, s.parent)),
                          Len(s.nodes) + 1),
                   x, s.parent)

\* ------------------------------------------------------- target functions
\* The target function is an opaque callable (rrtg.py: func(*args)); all the
\* generator sees of it is the sequence of its requests: coerce a condition to
\* bool, checkpoint / yield a value, return.  It is deterministic: the next
\* request is a function of the booleans handed back so far (h) and of the
\* number of values already reported (ni).  A function f of the family makes
\* up to f.k decisions, the i-th on Cond(f.pat, i); it returns early after a
\* decision whose outcome f.exit names; with f.info it reports a value before
\* every decision and before returning.  It returns the list of booleans it
\* was handed.  Two more functions are those of the repository's examples:
\* selectionSorted on three variables and greedy on four jobs and two machines.

x(i) == Var(i)

Cond(pat, i) ==
    CASE pat = "indep" -> BinExpr("<=", x(i), Lit(0))
      [] pat = "same" -> BinExpr("<=", x(0), Lit(0))
      [] pat = "nested" -> BinExpr("<=", x(0), Lit(i))
      [] pat = "flip" -> IF i % 2 = 1
                         THEN BinExpr(">=", BinExpr("-", x(0), x(1)), Lit(2))
                         ELSE BinExpr("<=", BinExpr("-", x(1), x(0)), Lit(-2))
      [] pat = "eq" -> BinExpr("==", x(i), Lit(0))
      [] pat = "product" -> IF i = 1 THEN BinExpr("<=", x(0), Lit(0))
                            ELSE BinExpr("<=", BinExpr("*", x(0), x(i)), Lit(0))
      [] pat = "sum" -> IF i = 1 THEN BinExpr("<=", x(0), Lit(0))
                        ELSE BinExpr("+", x(0), x(i))

Patterns == {"indep", "same", "nested", "flip", "eq", "product", "sum"}

\* selectionSort.py, selectionSorted(a) on the list a = [x0, x1, x2].
SortInput == <<x(0), x(1), x(2)>>

\* The loops of lines 12-13 with the outer loop never advancing: after the
\* last j the first pair again.
nextPair_restart(p, n) == IF p[2] < n THEN <<p[1], p[2] + 1>> ELSE <<1, 2>>

\* The loops of lines 12-13: the pair (i, j) after the pair p, 1-based.
nextPair(p, n) == IF p[2] < n THEN <<p[1], p[2] + 1>> ELSE <<p[1] + 1, p[1] + 2>>

\* The pair (i, j) of the t-th comparison.
RECURSIVE pairAt(_, _)
pairAt(t, n) == IF t = 1 THEN <<1, 2>> ELSE nextPair(pairAt(t - 1, n), n)

\* Lines 14-15: a[j], a[i] = a[i], a[j]
swapped(a, p) == [a EXCEPT ![p[1]] = a[p[2]], ![p[2]] = a[p[1]]]

\* The list a after the comparisons that were handed the booleans h.
RECURSIVE sortArray(_)
sortArray(h) ==
    IF h = << >>
    THEN SortInput
    ELSE IF h[Len(h)]
    THEN swapped(sortArray(SubSeq(h, 1, Len(h) - 1)), pairAt(Len(h), Len(SortInput)))
    ELSE sortArray(SubSeq(h, 1, Len(h) - 1))

\* Line 14: a[i] > a[j], the comparison that follows those of h.
sortCond(h) ==
    BinExpr(">", sortArray(h)[pairAt(Len(h) + 1, Len(SortInput))[1]],
                 sortArray(h)[pairAt(Len(h) + 1, Len(SortInput))[2]])

SelectionSort ==
    [pat |-> "selectionSort", k |-> (Len(SortInput) * (Len(SortInput) - 1)) \div 2,
     exit |-> "never", info |-> "none"]

\* lpt.py, greedy(x, m) on the jobs x = [x0, x1, x2, x3] and m = 2 machines.
LptJobs == <<x(0), x(1), x(2), x(3)>>

\* Lines 38-41: the loads after the first m jobs went to machines 0, 1.
LptFirstLoads == <<x(0), x(1)>>

\* argmin of two loads, lines 20-25: its one comparison x[1] <= minValue came
\* out as b; the index of the machine, 1-based.
argminOf(b) == IF b THEN 2 ELSE 1

\* Line 46: the loads after the jobs whose argmin was handed the booleans h.
RECURSIVE lptLoads(_)
lptLoads(h) ==
    IF h = << >>
    THEN LptFirstLoads
    ELSE [lptLoads(SubSeq(h, 1, Len(h) - 1)) EXCEPT ![argminOf(h[Len(h)])] =
            BinExpr("+", @, LptJobs[Len(LptFirstLoads) + Len(h)])]

\* argmin, line 23: loads[1] <= loads[0]
lptCond(h) == BinExpr("<=", lptLoads(h)[2], lptLoads(h)[1])

\* Lines 39 and 44: the AssnEvent(job, machine) yielded as the ni-th value
\* (from 0), as the pair <<job, machine>>.
lptEvent(h, ni) ==
    <<ni, IF ni < Len(LptFirstLoads) THEN ni
          ELSE argminOf(h[ni - Len(LptFirstLoads) + 1]) - 1>>

\* Line 47: assn
lptAssn(h) ==
    [j \in 1..Len(LptJobs) |->
        IF j <= Len(LptFirstLoads) THEN j - 1
        ELSE argminOf(h[j - Len(LptFirstLoads)]) - 1]

Lpt ==
    [pat |-> "lpt", k |-> Len(LptJobs) - Len(LptFirstLoads), exit |-> "never",
     info |-> "yield"]

Funcs ==
    [pat : Patterns, k : 0..MaxK, exit : {"never", "onTrue", "onFalse"},
     info : {"none", "checkpoint", "yield"}]
    \cup {SelectionSort, Lpt}

\* The condition f coerces after it was handed the booleans h.
CondAt(f, h) ==
    CASE f.pat = "selectionSort" -> sortCond(h)
      [] f.pat = "lpt" -> lptCond(h)
      [] OTHER -> Cond(f.pat, Len(h) + 1)

\* f reports a value next: before every decision and before returning; greedy
\* yields one event per job, the first m of them before any decision.
infoDue(f, h, ni) ==
    /\ f.info # "none"
    /\ IF f.pat = "lpt" THEN ni < Len(LptFirstLoads) + Len(h) ELSE ni <= Len(h)

\* The value f returns.
result(f, h) ==
    CASE f.pat = "selectionSort" -> sortArray(h)
      [] f.pat = "lpt" -> lptAssn(h)
      [] OTHER -> h

exited(f, h) ==
    Len(h) > 0 /\ ((f.exit = "onTrue" /\ h[Len(h)]) \/ (f.exit = "onFalse" /\ ~h[Len(h)]))

Request(f, h, ni) ==
    IF infoDue(f, h, ni)
    THEN [type |-> "info", arg |-> IF f.pat = "lpt" THEN lptEvent(h, ni) ELSE Len(h)]
    ELSE IF Len(h) < f.k /\ ~exited(f, h)
    THEN [type |-> "if", arg |-> CondAt(f, h)]
    ELSE [type |-> "ret", arg |-> result(f, h)]

\* ------------------------------------------------------------ the explorers
\* of the model, as constructed

IneqModes == {"exact", "strict", "lenient"}

\* LinConstrTreeExplorer() constructed without the ordering of the jobs.
LptBase_none == << >>

\* lpt.py, line 61: [x[i-1] >= x[i] for i in range(1, n)]
LptBase ==
    [i \in 1..(Len(LptJobs) - 1) |-> BinExpr(">=", LptJobs[i], LptJobs[i + 1])]

BaseLists == {<< >>, <<BinExpr(">", x(0), Lit(0))>>, LptBase}

\* TreeExplorer.__init__ / CachedTreeExplorer.__init__ /
\* LinConstrTreeExplorer.__init__, given the base constraints dict built
NewExplorer(kind, ineqMode, baseDict, policy) ==
    [kind |-> kind, cache |-> EmptyDict, ineqMode |-> ineqMode,
     baseConstraintsDict |-> baseDict, constraints |-> baseDict,
     policy |-> policy, returned |-> FALSE]

Answers == BOOLEAN \X BOOLEAN

NoPolicy == <<<<FALSE, TRUE>>, <<FALSE, TRUE>>>>

BuiltIn == {"TreeExplorer", "CachedTreeExplorer", "LinConstrTreeExplorer"}

\* The explorers whose constructor returns.
Explorers ==
    {NewExplorer(kind, "exact", EmptyDict, NoPolicy) :
        kind \in {"TreeExplorer", "CachedTreeExplorer"}}
    \cup {NewExplorer("LinConstrTreeExplorer", c[1], baseDictOf(c[2], c[1]).d, NoPolicy) :
            c \in {c \in IneqModes \X BaseLists : baseDictOf(c[2], c[1]).err = ""}}
    \cup {NewExplorer("UserTreeExplorer", "exact", EmptyDict, <<a1, a2>>) :
            a1 \in Answers, a2 \in Answers}

Drivers == {"run", "runOnce", "genFunc2dtree"}

\* ------------------------------------------------------------------ state

VARIABLES
    func,           \* the target function
    driver,         \* how the caller drives the generators
    gen,            \* gen[g]: the RepeatedRunTreeGen g
    explorer,       \* explorer[g]: g's TreeExplorer
    globalTreeGen,  \* Expr.globalTreeGen: None or a generator
    pc,             \* pc[g]: where the call that drives g stands
    hist,           \* hist[g]: the booleans handed to the running target function
    ninfo,          \* ninfo[g]: the values it has reported in this execution
    err,            \* err[g]: the exception that ended the call, "" if none
    nRuns,          \* nRuns[g]: the executions of the target function started
    te,             \* an explorer the caller holds and calls itself (test.py)
    last,           \* the caller's last call of its own and what came of it
    plain,          \* the generators driven over the function without its reports
    ivs,            \* the Interval objects the caller holds
    built,          \* the operands the caller holds and the expression built of them
    parsed          \* the comparison the caller holds and what parseLinCmpExpr made of it

vars ==
    <<func, driver, gen, explorer, globalTreeGen, pc, hist, ninfo, err, nRuns, te, last,
      plain, ivs, built, parsed>>

\* The caller has made no call of its own since the last step of a generator.
NoCall ==
    [op |-> "", expr |-> Lit(0), b |-> FALSE, ret |-> FALSE, checkOther |-> FALSE,
     err |-> ""]

\* A step of a call that drives a generator: the caller makes no call of its
\* own, and its explorer is left alone.
Quiet == last' = NoCall /\ UNCHANGED <<te, plain, ivs, built, parsed>>

\* The caller holds no comparison to parse.
NoParsed == [expr |-> Lit(0), lin |-> {}]

\* The caller has built no expression of its own.
NoBuilt == [op |-> "", larg |-> Lit(0), rarg |-> Lit(0), automatic |-> {}]

\* The caller holds no Interval.
NoIntervals == [a |-> {}, b |-> {}, c |-> {}]

\* Nothing has run yet: RepeatedRunTreeGen.__init__ for every generator, no
\* generator installed (expr.py, line 10).
Fresh ==
    /\ last = NoCall
    /\ gen = [g \in Gens |-> NewGen]
    /\ globalTreeGen = None
    /\ pc = [g \in Gens |-> "idle"]
    /\ hist = [g \in Gens |-> << >>]
    /\ ninfo = [g \in Gens |-> 0]
    /\ err = [g \in Gens |-> ""]
    /\ nRuns = [g \in Gens |-> 0]

Start ==
    /\ func \in Funcs
    /\ driver \in Drivers
    /\ (driver = "genFunc2dtree") <=> (func.info = "yield")
    /\ \E x0 \in Explorers :
         /\ x0.kind = "UserTreeExplorer" => func.pat = "indep"
         /\ x0.baseConstraintsDict \in {baseDictOf(LptBase, m).d : m \in IneqModes}
              => func.pat = "lpt"
         /\ explorer = [g \in Gens |-> x0]
         /\ te = x0
    /\ Fresh

\* Every generator is driven over the function as written.
Init == Start /\ plain = {} /\ ivs = NoIntervals /\ built = NoBuilt /\ parsed = NoParsed

\* The function generator g is driven over: func, or func with its
\* checkpoint calls or yields removed.
funcOf(g) == IF g \in plain THEN [func EXCEPT !.info = "none"] ELSE func

\* How g is driven: a function whose yields were removed is no generator
\* function, it is driven by run (func2dtree).
driverOf(g) == IF g \in plain /\ driver = "genFunc2dtree" THEN "run" ELSE driver

\* No other generator's call is on the stack: the caller is at top level.
AtTop(g) == \A h \in Gens \ {g} : pc[h] \notin {"loop", "func"}

request(g) == Request(funcOf(g), hist[g], ninfo[g])

\* run, line 116 / genFunc2dtree, lines 155-156: the call is entered
Call(g) ==
    /\ driverOf(g) \in {"run", "genFunc2dtree"}
    /\ pc[g] = "idle"
    /\ AtTop(g)
    /\ pc' = [pc EXCEPT ![g] = "loop"]
    /\ globalTreeGen' = IF driverOf(g) = "run" THEN g ELSE globalTreeGen
    /\ UNCHANGED <<func, driver, gen, explorer, hist, ninfo, err, nRuns>>
    /\ Quiet

\* run, lines 117-118 / genFunc2dtree, lines 156-158 and iterateOnce, line
\* 123: not finished, the target function is called
RunLoop(g) ==
    /\ pc[g] = "loop"
    /\ ~finished(gen[g])
    /\ pc' = [pc EXCEPT ![g] = "func"]
    /\ hist' = [hist EXCEPT ![g] = << >>]
    /\ ninfo' = [ninfo EXCEPT ![g] = 0]
    /\ nRuns' = [nRuns EXCEPT ![g] = @ + 1]
    /\ globalTreeGen' = IF driverOf(g) = "genFunc2dtree" THEN g ELSE globalTreeGen
    /\ UNCHANGED <<func, driver, gen, explorer, err>>
    /\ Quiet

\* run returning without resetting Expr.globalTreeGen.
RunReturn_keeps(g) ==
    /\ pc[g] = "loop"
    /\ finished(gen[g])
    /\ pc' = [pc EXCEPT ![g] = "done"]
    /\ UNCHANGED <<func, driver, gen, explorer, globalTreeGen, hist, ninfo, err, nRuns>>
    /\ Quiet

\* run, lines 117 and 120 / genFunc2dtree, lines 156 and 159-160: finished,
\* the call returns
RunReturn(g) ==
    /\ pc[g] = "loop"
    /\ finished(gen[g])
    /\ pc' = [pc EXCEPT ![g] = "done"]
    /\ globalTreeGen' = IF driverOf(g) = "run" THEN None ELSE globalTreeGen
    /\ UNCHANGED <<func, driver, gen, explorer, hist, ninfo, err, nRuns>>
    /\ Quiet

\* runOnce installing the first generator instead of self.
RunOnce_first(g) ==
    /\ driverOf(g) = "runOnce"
    /\ pc[g] = "idle"
    /\ AtTop(g)
    /\ pc' = [pc EXCEPT ![g] = "func"]
    /\ hist' = [hist EXCEPT ![g] = << >>]
    /\ ninfo' = [ninfo EXCEPT ![g] = 0]
    /\ nRuns' = [nRuns EXCEPT ![g] = @ + 1]
    /\ globalTreeGen' = 1
    /\ UNCHANGED <<func, driver, gen, explorer, err>>
    /\ Quiet

\* runOnce, lines 110-111: the caller calls runOnce, whatever the tree is
RunOnce(g) ==
    /\ driverOf(g) = "runOnce"
    /\ pc[g] = "idle"
    /\ AtTop(g)
    /\ pc' = [pc EXCEPT ![g] = "func"]
    /\ hist' = [hist EXCEPT ![g] = << >>]
    /\ ninfo' = [ninfo EXCEPT ![g] = 0]
    /\ nRuns' = [nRuns EXCEPT ![g] = @ + 1]
    /\ globalTreeGen' = g
    /\ UNCHANGED <<func, driver, gen, explorer, err>>
    /\ Quiet

\* The call that drives g ends with exception e; nothing resets
\* Expr.globalTreeGen on that path.
Raise(g, e) ==
    /\ pc' = [pc EXCEPT ![g] = "error"]
    /\ err' = [err EXCEPT ![g] = e]

\* The generator t and its explorer are left as the call's outcome o has them.
Leaves(t, o) ==
    /\ gen' = [gen EXCEPT ![t] = o.gen]
    /\ explorer' = [explorer EXCEPT ![t] = o.explorer]

\* Expr.__bool__, line 21: return Expr.globalTreeGen.decideIf(self), with
\* outcome o
Decided(g, o) ==
    /\ Leaves(globalTreeGen, o)
    /\ IF o.err = ""
       THEN /\ hist' = [hist EXCEPT ![g] = Append(@, o.ret)]
            /\ UNCHANGED <<pc, err>>
       ELSE /\ Raise(g, o.err)
            /\ UNCHANGED hist

\* Expr.__bool__: the target function run for g coerces a condition
Coerce(g) ==
    /\ pc[g] = "func"
    /\ request(g).type = "if"
    /\ IF globalTreeGen = None
       THEN /\ Raise(g, "NotImplementedError")
            /\ UNCHANGED <<gen, explorer, hist>>
       ELSE \E o \in {decideIf(gen[globalTreeGen], explorer[globalTreeGen],
                               request(g).arg)} : Decided(g, o)
    /\ UNCHANGED <<func, driver, globalTreeGen, ninfo, nRuns>>
    /\ Quiet

\* The generator that records a reported value: self for a value yielded to
\* iterateOnce, Expr.globalTreeGen for checkpoint(v)
infoGen(g) == IF func.info = "yield" THEN g ELSE globalTreeGen

infoVerb == IF func.info = "yield" THEN YieldVerb ELSE CheckpointVerb

Informed(g, t, o) ==
    /\ Leaves(t, o)
    /\ IF o.err = "" THEN UNCHANGED <<pc, err>> ELSE Raise(g, o.err)

\* checkpoint(v) called by the target function (lines 163-168; nothing is
\* recorded when no generator is active), or a value it yields to iterateOnce
\* (lines 126-127)
AddInfo(g) ==
    /\ pc[g] = "func"
    /\ request(g).type = "info"
    /\ IF infoGen(g) = None
       THEN UNCHANGED <<gen, explorer, pc, err>>
       ELSE \E o \in {addInfo(gen[infoGen(g)], explorer[infoGen(g)], request(g).arg,
                              infoVerb)} : Informed(g, infoGen(g), o)
    /\ ninfo' = [ninfo EXCEPT ![g] = @ + 1]
    /\ UNCHANGED <<func, driver, globalTreeGen, hist, nRuns>>
    /\ Quiet

Ended(g, o) ==
    /\ Leaves(g, o)
    /\ IF o.err = ""
       THEN /\ pc' = [pc EXCEPT ![g] = IF driverOf(g) = "runOnce" THEN "idle" ELSE "loop"]
            /\ globalTreeGen' = IF driverOf(g) = "run" THEN globalTreeGen ELSE None
            /\ UNCHANGED err
       ELSE /\ Raise(g, o.err)
            /\ UNCHANGED globalTreeGen

\* The target function returns and reportEnd is called: run, line 119 /
\* runOnce, lines 112-113 / iterateOnce, lines 128-130
ReportEnd(g) ==
    /\ pc[g] = "func"
    /\ request(g).type = "ret"
    /\ \E o \in {reportEnd(gen[g], explorer[g], request(g).arg)} : Ended(g, o)
    /\ UNCHANGED <<func, driver, hist, ninfo, nRuns>>
    /\ Quiet

Step(g) ==
    \/ Call(g)
    \/ RunLoop(g)
    \/ RunReturn(g)
    \/ RunOnce(g)
    \/ Coerce(g)
    \/ AddInfo(g)
    \/ ReportEnd(g)

\* Expr.__bool__ at top level: the caller coerces a condition while no call is
\* on the stack and none has raised
CoerceOutside ==
    /\ \A g \in Gens : pc[g] \in {"idle", "done"}
    /\ \E e \in {CondAt(func, << >>)} :
         IF globalTreeGen = None
         THEN /\ last' = [NoCall EXCEPT !.op = "bool", !.expr = e,
                                         !.err = "NotImplementedError"]
              /\ UNCHANGED <<gen, explorer>>
         ELSE \E o \in {decideIf(gen[globalTreeGen], explorer[globalTreeGen], e)} :
                /\ Leaves(globalTreeGen, o)
                /\ last' = [NoCall EXCEPT !.op = "bool", !.expr = e, !.ret = o.ret,
                                           !.err = o.err]
    /\ UNCHANGED <<func, driver, globalTreeGen, pc, hist, ninfo, err, nRuns, te, plain, ivs, built, parsed>>

\* One generator is driven.
Next == Step(1) \/ CoerceOutside

Spec == Init /\ [][Next]_vars

\* The run loop is not abandoned: a call that can take a step takes it.
FairSpec == Spec /\ WF_vars(Next)

\* The other of the two generators.
other(g) == CHOOSE h \in Gens : h # g

\* The caller drives both generators, one call on the stack at a time (AtTop);
\* with runOnce it alternates between them, in either order within a round.
Turn(g) == (driver = "runOnce" /\ pc[g] = "idle") => nRuns[g] <= nRuns[other(g)]

NextTwo == \E g \in Gens : Turn(g) /\ Step(g)

SpecTwo == Init /\ [][NextTwo]_vars

\* The caller drives generator 1 over a function that reports values and
\* generator 2 over the same function with its reports removed.
InitInfo == Start /\ plain = {2} /\ func.info # "none" /\ ivs = NoIntervals /\ built = NoBuilt /\ parsed = NoParsed

SpecInfo == InitInfo /\ [][NextTwo]_vars

\* lpt.py, main (lines 60-62) next to the same call with the trivial explorer:
\* generator 1 explores greedy(x, 2) with LinConstrTreeExplorer seeded with
\* x0 >= x1 >= x2 >= x3 (in the default mode, exact), generator 2 with
\* TreeExplorer.
InitLpt ==
    /\ func = Lpt
    /\ driver = "genFunc2dtree"
    /\ plain = {}
    /\ ivs = NoIntervals /\ built = NoBuilt /\ parsed = NoParsed
    /\ explorer =
          [g \in Gens |->
              IF g = 1
              THEN NewExplorer("LinConstrTreeExplorer", "exact",
                               baseDictOf(LptBase, "exact").d, NoPolicy)
              ELSE NewExplorer("TreeExplorer", "exact", EmptyDict, NoPolicy)]
    /\ te = explorer[1]
    /\ Fresh

SpecLpt == InitLpt /\ [][NextTwo]_vars

\* ------------------------------------------ the explorer called directly
\* The caller builds a LinConstrTreeExplorer and calls its decideIf, noteIf
\* and noteReturn itself, as test.py's ConstrDecideTest does, with conditions
\* over x = x(0) and y = x(1); an exception a call raises is caught by the
\* caller, who goes on using the explorer.

LinExprs ==
    {BinExpr("<=", x(0), Lit(2)),
     BinExpr("<=", BinExpr("+", x(0), x(1)), Lit(2)),
     BinExpr("<=", x(0), Lit(-2)),
     BinExpr(">", x(0), x(0)),
     BinExpr(">=", x(0), x(0)),
     BinExpr(">=", BinExpr("-", x(0), x(1)), Lit(2)),
     BinExpr("<=", BinExpr("-", x(1), x(0)), Lit(-2)),
     BinExpr(">", x(0), Lit(2)),
     BinExpr("==", x(0), Lit(0)),
     BinExpr("<=", BinExpr("*", x(0), x(1)), Lit(0)),
     BinExpr("+", x(0), x(1))}

\* What noteIf hands to addConstrToDict, which takes Expr | bool.
Constrs == LinExprs \cup {BoolConstr(TRUE), BoolConstr(FALSE)}

Called(op, e, b, a) ==
    /\ te' = a.x
    /\ last' = [op |-> op, expr |-> e, b |-> b, ret |-> a.b,
                checkOther |-> a.checkOther, err |-> a.err]

\* te.decideIf(e)
TeDecideIf ==
    /\ \E e \in LinExprs : \E a \in {explorerDecideIf(te, e)} :
         Called("decideIf", e, FALSE, a)
    /\ UNCHANGED <<func, driver, gen, explorer, globalTreeGen, pc, hist, ninfo, err,
                   nRuns, plain, ivs, built, parsed>>

\* te.noteIf(e, b)
TeNoteIf ==
    /\ \E e \in Constrs, b \in BOOLEAN : \E r \in {explorerNoteIf(te, e, b)} :
         Called("noteIf", e, b, AnswerRaise(r.x, r.err))
    /\ UNCHANGED <<func, driver, gen, explorer, globalTreeGen, pc, hist, ninfo, err,
                   nRuns, plain, ivs, built, parsed>>

\* te.noteReturn(None)
TeNoteReturn ==
    /\ Called("noteReturn", Lit(0), FALSE, Answer(FALSE, FALSE, explorerNoteReturn(te)))
    /\ UNCHANGED <<func, driver, gen, explorer, globalTreeGen, pc, hist, ninfo, err,
                   nRuns, plain, ivs, built, parsed>>

NextLin == TeDecideIf \/ TeNoteIf \/ TeNoteReturn

InitLin ==
    /\ Init
    /\ func = [pat |-> "indep", k |-> 0, exit |-> "never", info |-> "none"]
    /\ driver = "runOnce"
    /\ te.kind = "LinConstrTreeExplorer"

SpecLin == InitLin /\ [][NextLin]_vars

\* ------------------------------------ addConstrToDict called directly
\* test.py, ConstrAddTest: the caller keeps a dict of constraints (held here
\* as te.constraints, with the mode it passes as te.ineqMode), adds
\* inequalities between a variable and a number with addConstrToDict, and
\* clears the dict.

ModeOps == {"<", "<=", ">", ">="}

ModeExprs == {BinExpr(op, v, Lit(c)) : op \in ModeOps, v \in {x(0), x(1)}, c \in {2, 3}}

\* addConstrToDict(e, b, constraints, ineqMode)
AddConstr ==
    /\ \E e \in ModeExprs, b \in BOOLEAN :
         \E r \in {addConstrToDict(e, b, te.constraints, te.ineqMode)} :
            Called("addConstrToDict", e, b,
                   AnswerRaise([te EXCEPT !.constraints = r.d], r.err))
    /\ UNCHANGED <<func, driver, gen, explorer, globalTreeGen, pc, hist, ninfo, err,
                   nRuns, plain, ivs, built, parsed>>

\* constraints.clear()
ClearConstr ==
    /\ te.constraints # EmptyDict
    /\ Called("clear", Lit(0), FALSE,
              AnswerRaise([te EXCEPT !.constraints = EmptyDict], ""))
    /\ UNCHANGED <<func, driver, gen, explorer, globalTreeGen, pc, hist, ninfo, err,
                   nRuns, plain, ivs, built, parsed>>

NextModes == AddConstr \/ ClearConstr

InitModes == InitLin /\ te.constraints = EmptyDict

SpecModes == InitModes /\ [][NextModes]_vars

\* --------------------------------------------- Interval called directly
\* test.py, IntervalTest: the caller builds two intervals and intersects them.
\* Numbers are counted in halves, so that the end points 2, 3, 4, 5 of the
\* tests are 4, 6, 8, 10 and a point like 2.5 is 5.

EndPoints == {2 * v : v \in 2..5}

\* Every end point, a point between any two neighbours, one below and one
\* above all of them.
Points == 3..11

Intervals ==
    {Interval(beg, end, begClosed, endClosed) :
        beg \in {NoneNum} \cup {Num(v) : v \in EndPoints},
        end \in {NoneNum} \cup {Num(v) : v \in EndPoints},
        begClosed \in BOOLEAN, endClosed \in BOOLEAN}

\* c = a & b (Interval.__and__)
Intersect ==
    /\ ivs.c = {}
    /\ ivs' = [ivs EXCEPT !.c = {intersect(i, j) : i \in ivs.a, j \in ivs.b}]
    /\ last' = [NoCall EXCEPT !.op = "intersect"]
    /\ UNCHANGED <<func, driver, gen, explorer, globalTreeGen, pc, hist, ninfo, err,
                   nRuns, te, plain, built, parsed>>

NextIv == Intersect

InitIv ==
    /\ Start
    /\ func = [pat |-> "indep", k |-> 0, exit |-> "never", info |-> "none"]
    /\ driver = "runOnce"
    /\ te.kind = "TreeExplorer"
    /\ plain = {}
    /\ built = NoBuilt /\ parsed = NoParsed
    /\ \E i \in Intervals, j \in Intervals : ivs = [a |-> {i}, b |-> {j}, c |-> {}]

SpecIv == InitIv /\ [][NextIv]_vars

\* ------------------------------------------- expressions built directly
\* test.py, ExprTest: the caller builds an expression of two operands with an
\* overloaded operator.

\* x, y, literals, and the operands of (x + y) * (x - y) and 1 - x * 2.
Operands ==
    {x(0), x(1), Lit(0), Lit(1), Lit(2), BinExpr("+", x(0), x(1)),
     BinExpr("-", x(0), x(1)), BinExpr("*", x(0), Lit(2))}

\* automatic = larg op rarg
Build ==
    /\ built.automatic = {}
    /\ built' = [built EXCEPT !.automatic = {evalBin(built.op, built.larg, built.rarg)}]
    /\ last' = [NoCall EXCEPT !.op = "build"]
    /\ UNCHANGED <<func, driver, gen, explorer, globalTreeGen, pc, hist, ninfo, err,
                   nRuns, te, plain, ivs, parsed>>

NextOps == Build

InitOps ==
    /\ Start
    /\ func = [pat |-> "indep", k |-> 0, exit |-> "never", info |-> "none"]
    /\ driver = "runOnce"
    /\ te.kind = "TreeExplorer"
    /\ plain = {}
    /\ ivs = NoIntervals
    /\ parsed = NoParsed
    /\ \E op \in DOMAIN pyMethod, l \in Operands, r \in Operands :
          /\ isExpr(l) \/ isExpr(r)
          /\ built = [op |-> op, larg |-> l, rarg |-> r, automatic |-> {}]

SpecOps == InitOps /\ [][NextOps]_vars

\* ------------------------------------------------------- tree vocabulary

\* The ids of the nodes of the subtree rooted at id.
RECURSIVE subtree(_, _)
subtree(ns, id) ==
    IF id = None
    THEN {}
    ELSE {id} \cup UNION {subtree(ns, ns[id].kids[i]) : i \in DOMAIN ns[id].kids}

TreeNodes(s) == subtree(s.nodes, s.root)

NodesOfKind(s, kind) == {id \in TreeNodes(s) : s.nodes[id].kind = kind}

NumLeaves(s) == Cardinality(NodesOfKind(s, "ReturnNode"))

\* The slot of its parent that holds node id.
slotOf(ns, id) ==
    CHOOSE i \in DOMAIN ns[ns[id].parent].kids : ns[ns[id].parent].kids[i] = id

\* The decisions on the way from the root to node id: the slot taken at an
\* IfNode (0: False, 1: True), b at a FrozenIfNode.
RECURSIVE decisions(_, _)
decisions(ns, id) ==
    IF ns[id].parent = None
    THEN << >>
    ELSE IF ns[ns[id].parent].kind = "IfNode"
    THEN Append(decisions(ns, ns[id].parent), slotOf(ns, id) = 2)
    ELSE IF ns[ns[id].parent].kind = "FrozenIfNode"
    THEN Append(decisions(ns, ns[id].parent), ns[ns[id].parent].b)
    ELSE decisions(ns, ns[id].parent)

\* No slot of the tree is empty and every path ends in a ReturnNode.
NoEmptySlot(s) ==
    \A id \in TreeNodes(s) :
        /\ \A i \in DOMAIN s.nodes[id].kids : s.nodes[id].kids[i] # None
        /\ s.nodes[id].kids = << >> => s.nodes[id].kind = "ReturnNode"

\* The number of unexplored slots of the node the generator s stands on.
NumUnexplored(s) ==
    Len(s.nodes[s.current].kids) - SumStatuses(kidStatuses(s.nodes, s.current))

\* The target function run for g is about to coerce a condition, and the
\* active generator stands on an existing node: decideIf will replay it.
Replaying(g) ==
    /\ pc[g] = "func"
    /\ request(g).type = "if"
    /\ globalTreeGen # None
    /\ gen[globalTreeGen].current # None

\* The node the active generator stands on.
replayed == gen[globalTreeGen].nodes[gen[globalTreeGen].current]

\* The root of the active generator's tree is not fully explored yet.
RootOpen == ~gen[globalTreeGen].nodes[gen[globalTreeGen].root].explored

ReplayingIfNode == Replaying(1) /\ replayed.kind = "IfNode" /\ RootOpen

\* Structural identity of the subtrees at id1 of heap ns1 and id2 of ns2.
RECURSIVE sameTree(_, _, _, _)
sameTree(ns1, id1, ns2, id2) ==
    IF id1 = None \/ id2 = None
    THEN id1 = id2
    ELSE /\ ns1[id1].kind = ns2[id2].kind
         /\ ns1[id1].expr = ns2[id2].expr
         /\ ns1[id1].b = ns2[id2].b
         /\ ns1[id1].verb = ns2[id2].verb
         /\ ns1[id1].explored = ns2[id2].explored
         /\ Len(ns1[id1].kids) = Len(ns2[id2].kids)
         /\ \A i \in DOMAIN ns1[id1].kids :
                sameTree(ns1, ns1[id1].kids[i], ns2, ns2[id2].kids[i])

\* ----------------------------------------------------------------- claims

\* The trivial explorer drives the run loop over a function that makes exactly
\* func.k decisions on every path.
Trivial ==
    explorer[1].kind = "TreeExplorer" /\ func.exit = "never" /\ driver # "runOnce"

ExhaustiveTree ==
    /\ NumLeaves(gen[1]) = 2 ^ func.k
    /\ Cardinality(NodesOfKind(gen[1], "IfNode")) = 2 ^ func.k - 1
    /\ \A a, b \in NodesOfKind(gen[1], "ReturnNode") :
           a # b => decisions(gen[1].nodes, a) # decisions(gen[1].nodes, b)

\* C1: under the trivial TreeExplorer, the run loop over a function with
\* exactly k independent decisions returns, and the tree then has exactly 2^k
\* ReturnNodes and 2^k - 1 IfNodes, no two leaves with the same sequence of
\* decisions from the root.
Exhaustive ==
    /\ [](Trivial /\ pc[1] = "done" => ExhaustiveTree)
    /\ Trivial ~> (pc[1] = "done")

ExhaustiveWitness ==
    Trivial /\ pc[1] = "done" /\ func.k = MaxK /\ NumLeaves(gen[1]) = 2 ^ MaxK

\* A built-in explorer drives the run loop (run or genFunc2dtree).
BuiltInRun == explorer[1].kind \in BuiltIn /\ driver # "runOnce"

Complete(s) == s.root # None /\ s.nodes[s.root].explored /\ NoEmptySlot(s)

\* C2: with a built-in explorer the run loop halts; when it returns, the root
\* exists and is explored and the tree has no empty slot, every path ending
\* in a ReturnNode.  It returns unless the explorer itself raised, which only
\* the linear-constraint explorer does: with KeyError on an '==' condition,
\* with ValueError on a product of variables or on a non-comparison.
RunTerminates ==
    /\ [](BuiltInRun /\ pc[1] = "done" => Complete(gen[1]))
    /\ [](BuiltInRun /\ pc[1] = "error" =>
            /\ explorer[1].kind = "LinConstrTreeExplorer"
            /\ \/ func.pat = "eq" /\ err[1] = "KeyError"
               \/ func.pat \in {"product", "sum"} /\ err[1] = "ValueError")
    /\ BuiltInRun ~> (pc[1] \in {"done", "error"})

RunTerminatesWitness ==
    /\ BuiltInRun
    /\ explorer[1].kind = "LinConstrTreeExplorer"
    /\ pc[1] = "done"
    /\ Complete(gen[1])
    /\ NumLeaves(gen[1]) >= 3

\* C3: every execution of the target function followed by reportEnd adds
\* exactly one ReturnNode: between executions the tree has as many ReturnNodes
\* as executions were started, during one (or after one that raised) one less;
\* so a finished tree has as many leaves as executions were performed.
OneLeafPerRun ==
    NumLeaves(gen[1]) = IF pc[1] \in {"func", "error"} THEN nRuns[1] - 1 ELSE nRuns[1]

OneLeafPerRunWitness ==
    pc[1] = "done" /\ nRuns[1] >= 4 /\ NumLeaves(gen[1]) = nRuns[1]

\* C4: in every state, every ReturnNode is explored and an internal node is
\* explored iff each of its slots holds a node that is explored.
ExploredInv ==
    \A g \in Gens : \A id \in 1..Len(gen[g].nodes) :
        IF gen[g].nodes[id].kind = "ReturnNode"
        THEN gen[g].nodes[id].explored
        ELSE gen[g].nodes[id].explored <=>
                \A i \in DOMAIN gen[g].nodes[id].kids :
                    /\ gen[g].nodes[id].kids[i] # None
                    /\ gen[g].nodes[gen[g].nodes[id].kids[i]].explored

ExploredInvWitness ==
    /\ pc[1] = "loop"
    /\ ~finished(gen[1])
    /\ \E id \in TreeNodes(gen[1]) :
          /\ gen[1].nodes[id].kind = "IfNode"
          /\ gen[1].nodes[id].explored
          /\ gen[1].nodes[id].parent # None

\* C5: a node that is explored is still a node of the tree, and explored, in
\* every later state.
ExploredMonotone ==
    [][\A g \in Gens :
          /\ \A id \in 1..Len(gen[g].nodes) :
                gen[g].nodes[id].explored =>
                    id <= Len(gen'[g].nodes) /\ gen'[g].nodes[id].explored
          /\ \A id \in TreeNodes(gen[g]) :
                gen[g].nodes[id].explored => id \in TreeNodes(gen'[g])]_vars

ExploredMonotoneWitness ==
    /\ pc[1] = "func"
    /\ hist[1] # << >>
    /\ NumLeaves(gen[1]) >= 2
    /\ \E id \in TreeNodes(gen[1]) :
          gen[1].nodes[id].kind # "ReturnNode" /\ gen[1].nodes[id].explored

\* C6 as stated: whenever decideIf replays an existing IfNode, exactly one of
\* its two slots is unexplored.
ExactlyOneUnexplored ==
    ReplayingIfNode => NumUnexplored(gen[globalTreeGen]) = 1

\* C6, amended: whenever decideIf replays an existing IfNode of a tree that is
\* not finished, at least one of its two slots is unexplored, one or both; with
\* both unexplored the explorer is consulted again and, when it answers
\* exploreOtherSide = true, decideIf descends into the slot of its value
\* without raising.
SomeUnexplored ==
    /\ [](ReplayingIfNode => NumUnexplored(gen[globalTreeGen]) \in {1, 2})
    /\ [][(/\ ReplayingIfNode
           /\ NumUnexplored(gen[globalTreeGen]) = 2
           /\ explorerDecideIf(explorer[globalTreeGen], request(1).arg).err = ""
           /\ explorerDecideIf(explorer[globalTreeGen], request(1).arg).checkOther)
          => /\ pc'[1] = "func"
             /\ gen'[globalTreeGen].parent = gen[globalTreeGen].current
             /\ gen'[globalTreeGen].kidIndex =
                  BoolToInt(explorerDecideIf(explorer[globalTreeGen], request(1).arg).b)
             /\ hist'[1] = Append(hist[1],
                  explorerDecideIf(explorer[globalTreeGen], request(1).arg).b)]_vars

SomeUnexploredWitness ==
    /\ ReplayingIfNode
    /\ NumUnexplored(gen[globalTreeGen]) = 2
    /\ explorer[1].kind \in BuiltIn
    /\ driver = "run"

\* The explorer answers exploreOtherSide = false for an existing IfNode whose
\* two slots are both unexplored.
Inconsistent ==
    /\ Replaying(1)
    /\ replayed.kind = "IfNode"
    /\ NumUnexplored(gen[globalTreeGen]) = 2
    /\ explorerDecideIf(explorer[globalTreeGen], request(1).arg).err = ""
    /\ ~explorerDecideIf(explorer[globalTreeGen], request(1).arg).checkOther

\* C7: when the explorer answers exploreOtherSide = false while an existing
\* IfNode with both slots unexplored is replayed, decideIf raises ValueError at
\* once: the generator does not descend and its tree is unchanged.
RaisesOnInconsistent ==
    [][Inconsistent => pc'[1] = "error" /\ err'[1] = "ValueError" /\ gen' = gen]_vars

RaisesOnInconsistentWitness ==
    /\ pc[1] = "error"
    /\ err[1] = "ValueError"
    /\ explorer[1].kind = "UserTreeExplorer"
    /\ globalTreeGen = 1
    /\ gen[1].current # None
    /\ gen[1].nodes[gen[1].current].kind = "IfNode"
    /\ NumUnexplored(gen[1]) = 2

\* Replay stands on a decision node none of whose slots is unexplored.
NoneUnexplored ==
    /\ Replaying(1)
    /\ replayed.kind \in {"IfNode", "FrozenIfNode"}
    /\ NumUnexplored(gen[globalTreeGen]) = 0

\* C8: when replay reaches a decision node with no unexplored slot, decideIf
\* fails at once (AssertionError) and neither the tree nor the explorer is
\* modified.
FailsOnExplored ==
    [][NoneUnexplored =>
          /\ pc'[1] = "error"
          /\ err'[1] = "AssertionError"
          /\ gen' = gen
          /\ explorer' = explorer]_vars

FailsOnExploredWitness ==
    /\ pc[1] = "error"
    /\ err[1] = "AssertionError"
    /\ driver = "runOnce"
    /\ finished(gen[1])
    /\ gen[1].current # None
    /\ gen[1].nodes[gen[1].current].kind \in {"IfNode", "FrozenIfNode"}
    /\ NumUnexplored(gen[1]) = 0

\* A step from generator s to generator t only grows the tree.
Grows(s, t) ==
    /\ Len(t.nodes) \in {Len(s.nodes), Len(s.nodes) + 1}
    /\ s.root # None => t.root = s.root
    /\ \A id \in 1..Len(s.nodes) :
          /\ t.nodes[id].kind = s.nodes[id].kind
          /\ t.nodes[id].b = s.nodes[id].b
          /\ Len(t.nodes[id].kids) = Len(s.nodes[id].kids)
          /\ \A i \in DOMAIN s.nodes[id].kids :
                \/ t.nodes[id].kids[i] = s.nodes[id].kids[i]
                \/ s.nodes[id].kids[i] = None /\ t.nodes[id].kids[i] = Len(t.nodes)
    /\ t.root \in {s.root, Len(t.nodes)}
    /\ Len(t.nodes) = Len(s.nodes) + 1 =>
          /\ s.current = None
          /\ IF s.parent = None
             THEN s.root = None /\ t.root = Len(t.nodes)
             ELSE /\ s.nodes[s.parent].kids[s.kidIndex + 1] = None
                  /\ t.nodes[s.parent].kids[s.kidIndex + 1] = Len(t.nodes)
    /\ Len(t.nodes) = Len(s.nodes) => t.root = s.root /\ TreeNodes(t) = TreeNodes(s)

\* C9: the tree only grows: a step creates at most one node, at the frontier,
\* into a slot that is empty (or as root when there is no root); the kind, the
\* number of slots and b of an existing node never change, and a non-empty
\* slot and the root are never overwritten.
TreeOnlyGrows == [][\A g \in Gens : Grows(gen[g], gen'[g])]_vars

TreeOnlyGrowsWitness ==
    /\ pc[1] = "func"
    /\ nRuns[1] >= 3
    /\ gen[1].current = None
    /\ gen[1].parent # None
    /\ gen[1].nodes[gen[1].parent].kind = "FrozenIfNode"
    /\ \E id \in TreeNodes(gen[1]) :
          /\ gen[1].nodes[id].kind = "IfNode"
          /\ gen[1].nodes[id].kids[1] # None
          /\ gen[1].nodes[id].kids[2] # None

\* Both generators are between runs, after the same number of runs.
Corresponding ==
    /\ nRuns[1] = nRuns[2]
    /\ pc[1] \notin {"loop", "func"}
    /\ pc[2] \notin {"loop", "func"}

RECURSIVE taken(_, _)
taken(ns, id) ==
    IF ns[id].parent = None
    THEN {}
    ELSE taken(ns, ns[id].parent) \cup
         (IF ns[ns[id].parent].kind = "IfNode"
          THEN {<<key(ns[ns[id].parent].expr), slotOf(ns, id) = 2>>}
          ELSE IF ns[ns[id].parent].kind = "FrozenIfNode"
          THEN {<<key(ns[ns[id].parent].expr), ns[ns[id].parent].b>>}
          ELSE {})

Cached == explorer[1].kind = "CachedTreeExplorer"

\* The memo holds exactly the conditions the running execution has coerced,
\* each with the boolean it was handed.
MemoOfThisRun ==
    /\ DOMAIN explorer[1].cache =
          {key(CondAt(func, SubSeq(hist[1], 1, i - 1))) : i \in 1..Len(hist[1])}
    /\ \A i \in 1..Len(hist[1]) :
          explorer[1].cache[key(CondAt(func, SubSeq(hist[1], 1, i - 1)))] = hist[1][i]

\* C11: under CachedTreeExplorer a condition whose key was coerced earlier on
\* the same path is a FrozenIfNode fixed at the boolean the earlier occurrence
\* got on that path, and a condition whose key is new on its path is an
\* IfNode; the memo is empty whenever no execution is under way (every
\* noteReturn clears it) and during an execution it holds that execution's
\* decisions only.
CachedSamePath ==
    Cached =>
        /\ \A n \in NodesOfKind(gen[1], "FrozenIfNode") :
              <<key(gen[1].nodes[n].expr), gen[1].nodes[n].b>> \in taken(gen[1].nodes, n)
        /\ \A n \in NodesOfKind(gen[1], "IfNode") :
              \A t \in taken(gen[1].nodes, n) : t[1] # key(gen[1].nodes[n].expr)
        /\ pc[1] # "func" => explorer[1].cache = EmptyDict
        /\ pc[1] = "func" => MemoOfThisRun

\* A later run has replayed the True side of a condition and met the same
\* condition again: it is frozen at True.
CachedSamePathWitness ==
    /\ Cached
    /\ nRuns[1] >= 2
    /\ pc[1] \in {"idle", "loop"}
    /\ \E n \in NodesOfKind(gen[1], "FrozenIfNode") :
          /\ gen[1].nodes[n].b
          /\ <<key(gen[1].nodes[n].expr), TRUE>> \in taken(gen[1].nodes, n)

\* The values the variables take in the assignments enumerated.
MaxVal == 4

Dom == (0 - MaxVal)..MaxVal

\* The variables of an expression.
RECURSIVE varsOf(_)
varsOf(e) ==
    CASE e.type = "Var" -> {e.name}
      [] e.type = "UnExpr" -> varsOf(e.arg)
      [] e.type = "BinExpr" -> varsOf(e.larg) \cup varsOf(e.rarg)
      [] OTHER -> {}

\* The number an arithmetic expression denotes under the assignment v.
RECURSIVE valueOf(_, _)
valueOf(e, v) ==
    CASE e.type = "Var" -> v[e.name]
      [] e.type = "Lit" -> e.val
      [] e.type = "UnExpr" -> IF e.op = "-" THEN 0 - valueOf(e.arg, v) ELSE valueOf(e.arg, v)
      [] e.type = "BinExpr" ->
           CASE e.op = "+" -> valueOf(e.larg, v) + valueOf(e.rarg, v)
             [] e.op = "-" -> valueOf(e.larg, v) - valueOf(e.rarg, v)
             [] e.op = "*" -> valueOf(e.larg, v) * valueOf(e.rarg, v)

\* The truth value of a comparison under the assignment v.
holdsAt(e, v) == evalOp(valueOf(e.larg, v), e.op, valueOf(e.rarg, v))

\* The pairs <<condition, branch taken>> of the decision nodes strictly above
\* node id.
RECURSIVE committed(_, _)
committed(ns, id) ==
    IF ns[id].parent = None
    THEN {}
    ELSE committed(ns, ns[id].parent) \cup
         (IF ns[ns[id].parent].kind = "IfNode"
          THEN {<<ns[ns[id].parent].expr, slotOf(ns, id) = 2>>}
          ELSE IF ns[ns[id].parent].kind = "FrozenIfNode"
          THEN {<<ns[ns[id].parent].expr, ns[ns[id].parent].b>>}
          ELSE {})

\* The base constraints list the explorer ex was constructed with.
baseListOf(ex) ==
    CHOOSE l \in BaseLists : baseDictOf(l, ex.ineqMode).d = ex.baseConstraintsDict

\* The assignments, to the variables that occur, under which every base
\* constraint of ex holds and every decision of cs came out as committed.
feasible(ex, cs, e) ==
    {v \in [varsOf(e) \cup UNION {varsOf(c[1]) : c \in cs}
              \cup UNION {varsOf(baseListOf(ex)[i]) : i \in DOMAIN baseListOf(ex)} -> Dom] :
        /\ \A i \in DOMAIN baseListOf(ex) : holdsAt(baseListOf(ex)[i], v)
        /\ \A c \in cs : holdsAt(c[1], v) = c[2]}

LinExact == explorer[1].kind = "LinConstrTreeExplorer" /\ explorer[1].ineqMode = "exact"

linOf(e) == parseLinCmpExpr(e, te.ineqMode).lin

coeffsOf(e) == items(linOf(e).coeffMap)

falseIntOf(e) == opToInterval(convertNegOp(linOf(e).op, te.ineqMode), linOf(e).rhs)

trueIntOf(e) == opToInterval(linOf(e).op, linOf(e).rhs)

\* e is a comparison of a linear combination that is not constant, and its
\* negation is a comparison the mode of te knows.
Decidable(e) ==
    /\ e.type # "Bool"
    /\ parseLinCmpExpr(e, te.ineqMode).err = ""
    /\ coeffsOf(e) # {}
    /\ convertNegOp(linOf(e).op, te.ineqMode) # KeyError

\* te holds a non-empty interval for the linear combination of e.
Stored(e) ==
    /\ Decidable(e)
    /\ coeffsOf(e) \in DOMAIN te.constraints
    /\ ~isEmpty(te.constraints[coeffsOf(e)])

falseInt2Of(e) == intersect(te.constraints[coeffsOf(e)], falseIntOf(e))

trueInt2Of(e) == intersect(te.constraints[coeffsOf(e)], trueIntOf(e))

\* C13: LinConstrTreeExplorer.decideIf, when the interval stored for the
\* condition's canonical linear combination has an empty intersection with the
\* interval of the condition's negation, answers value = True with
\* exploreOtherSide = False, and the stored interval becomes its intersection
\* with the interval of the True side.
ForcedTrue ==
    [][last'.op = "decideIf" /\ Stored(last'.expr) /\ isEmpty(falseInt2Of(last'.expr)) =>
          /\ last'.err = ""
          /\ last'.ret
          /\ ~last'.checkOther
          /\ te' = setConstr(te, coeffsOf(last'.expr), trueInt2Of(last'.expr))]_vars

\* decideIf has answered (True, False) on a condition that is not constant.
ForcedTrueWitness ==
    /\ last.op = "decideIf"
    /\ last.err = ""
    /\ last.ret
    /\ ~last.checkOther
    /\ Decidable(last.expr)
    /\ te.constraints # te.baseConstraintsDict

\* C14, as stated: LinConstrTreeExplorer.decideIf, in every case where the
\* stored interval's intersection with the interval of the negation is not
\* empty, answers value = False with exploreOtherSide = True and narrows the
\* stored interval to the False-side intersection.
FalseFirstAlwaysOpen ==
    [][last'.op = "decideIf" /\ Stored(last'.expr) /\ ~isEmpty(falseInt2Of(last'.expr)) =>
          /\ last'.err = ""
          /\ ~last'.ret
          /\ last'.checkOther
          /\ te' = setConstr(te, coeffsOf(last'.expr), falseInt2Of(last'.expr))]_vars

\* C14, amended: in every such case decideIf answers value = False and narrows
\* the stored interval to the False-side intersection; exploreOtherSide is
\* True exactly when the stored interval's intersection with the interval of
\* the True side is not empty either, and False (the True branch is pruned,
\* never left for a later run) when it is empty.
FalseFirst ==
    [][last'.op = "decideIf" /\ Stored(last'.expr) /\ ~isEmpty(falseInt2Of(last'.expr)) =>
          /\ last'.err = ""
          /\ ~last'.ret
          /\ last'.checkOther = ~isEmpty(trueInt2Of(last'.expr))
          /\ te' = setConstr(te, coeffsOf(last'.expr), falseInt2Of(last'.expr))]_vars

\* decideIf has answered (False, False) on a condition that is not constant:
\* the stored interval left no room for its True side.
FalseFirstWitness ==
    /\ last.op = "decideIf"
    /\ last.err = ""
    /\ ~last.ret
    /\ ~last.checkOther
    /\ Decidable(last.expr)
    /\ coeffsOf(last.expr) \in DOMAIN te.constraints

\* Both outcomes of the condition e are consistent with what te stores for
\* the linear combination of e: nothing, or an interval that meets both the
\* interval of the True side and that of the False side.  A constant
\* comparison has one outcome only.
BothPossible(e) ==
    /\ Decidable(e)
    /\ coeffsOf(e) \in DOMAIN te.constraints =>
         ~isEmpty(falseInt2Of(e)) /\ ~isEmpty(trueInt2Of(e))

\* te with the constraints on every linear combination but that of e dropped.
onlyOwn(e) ==
    [te EXCEPT !.constraints =
        [k \in DOMAIN te.constraints \cap {coeffsOf(e)} |-> te.constraints[k]]]

\* te = LinConstrTreeExplorer([x > 0]) of test.py line 97, and the conditions
\* of lines 98-105.
TestTe ==
    NewExplorer("LinConstrTreeExplorer", "exact",
                baseDictOf(<<BinExpr(">", x(0), Lit(0))>>, "exact").d, NoPolicy)

XLe2 == BinExpr("<=", x(0), Lit(2))

XPlusYLe2 == BinExpr("<=", BinExpr("+", x(0), x(1)), Lit(2))

XLeMinus2 == BinExpr("<=", x(0), Lit(-2))

\* C15: LinConstrTreeExplorer.decideIf answers exploreOtherSide = True if and
\* only if both outcomes of the comparison are consistent with the interval
\* stored for that same linear combination (or none is stored); the answer is
\* the one the explorer gives with the constraints on every other linear
\* combination removed.  With base x > 0, deciding x <= 2 and then
\* x + y <= 2 both answer exploreOtherSide = True, and deciding x <= -2
\* answers (False, False).
OtherSideIffBoth ==
    [][last'.op = "decideIf" /\ last'.err = "" =>
          /\ last'.checkOther = BothPossible(last'.expr)
          /\ last'.ret = explorerDecideIf(onlyOwn(last'.expr), last'.expr).b
          /\ last'.checkOther = explorerDecideIf(onlyOwn(last'.expr), last'.expr).checkOther
          /\ te = TestTe /\ last'.expr = XLe2 => last'.checkOther
          /\ te = explorerDecideIf(TestTe, XLe2).x /\ last'.expr = XPlusYLe2 =>
                last'.checkOther
          /\ te = TestTe /\ last'.expr = XLeMinus2 => ~last'.ret /\ ~last'.checkOther]_vars

\* test.py lines 98-101 have run: x <= 2, then x + y <= 2, both with
\* exploreOtherSide = True, and te holds an interval for each combination.
OtherSideIffBothWitness ==
    /\ last.op = "decideIf"
    /\ last.expr = XPlusYLe2
    /\ last.checkOther
    /\ te = explorerDecideIf(explorerDecideIf(TestTe, XLe2).x, XPlusYLe2).x
    /\ Cardinality(DOMAIN te.constraints) = 2

\* -a for an operand a of a comparison.
negated(a) == IF isExpr(a) THEN UnExpr("-", a) ELSE Lit(0 - a.val)

\* The sign-flipped rewrite of a comparison: l op r as -l FLIP_OP[op] -r.
signFlip(e) == BinExpr(FLIP_OP[e.op], negated(e.larg), negated(e.rarg))

\* The comparisons te parses.
Parseable == {e \in LinExprs : parseLinCmpExpr(e, te.ineqMode).err = ""}

XMinusYGe2 == BinExpr(">=", BinExpr("-", x(0), x(1)), Lit(2))

YMinusXLeMinus2 == BinExpr("<=", BinExpr("-", x(1), x(0)), Lit(-2))

\* The coefficient set of the combination x - y.
XMinusY == {<<0, 1>>, <<1, -1>>}

\* C16: canonicalization stability.  A linear comparison and its sign-flipped
\* rewrite parse to the identical canonical key (x - y >= 2 and y - x <= -2
\* among them) and, unless the comparison is constant, to the identical
\* operator and right-hand side as well; the first variable of the key in the
\* variable ordering has a positive coefficient.  So the constraint map never
\* holds an entry for a combination together with one for its negation, and
\* every key of the map has its first coefficient positive.
CanonicalStable ==
    /\ \A e \in Parseable :
          /\ parseLinCmpExpr(signFlip(e), te.ineqMode).err = ""
          /\ coeffsOf(signFlip(e)) = coeffsOf(e)
          /\ coeffsOf(e) # {} =>
                /\ linOf(signFlip(e)) = linOf(e)
                /\ linOf(e).coeffMap[argReprMin(DOMAIN linOf(e).coeffMap)] > 0
    /\ linOf(XMinusYGe2) = linOf(YMinusXLeMinus2)
    /\ coeffsOf(XMinusYGe2) = XMinusY
    /\ \A k \in DOMAIN te.constraints :
          /\ \A p \in k : (\A q \in k : p[1] <= q[1]) => p[2] > 0
          /\ {<<p[1], 0 - p[2]>> : p \in k} \notin DOMAIN te.constraints

\* x - y >= 2 was asserted and y - x <= -2 then decided: it is forced True by
\* the interval stored in the one entry both share.
CanonicalStableWitness ==
    /\ last.op = "decideIf"
    /\ last.expr = YMinusXLeMinus2
    /\ last.err = ""
    /\ last.ret
    /\ ~last.checkOther
    /\ XMinusY \in DOMAIN te.constraints
    /\ Cardinality(DOMAIN te.constraints \ DOMAIN te.baseConstraintsDict) = 1

LinRun == explorer[1].kind = "LinConstrTreeExplorer"

\* C17: at the start of every run (after construction and after every
\* noteReturn) the constraint map of the linear-constraint explorer equals the
\* map built from the base constraints; that base map is one the constructor
\* builds from a base constraints list and no step of a run changes it.
StartsFromBase ==
    /\ [](LinRun /\ pc[1] \in {"idle", "loop", "done"} =>
            explorer[1].constraints = explorer[1].baseConstraintsDict)
    /\ [](LinRun => explorer[1].baseConstraintsDict
                      = baseDictOf(baseListOf(explorer[1]), explorer[1].ineqMode).d)
    /\ [][explorer'[1].baseConstraintsDict = explorer[1].baseConstraintsDict]_vars

\* A second run is about to start under a base constraint: the first run
\* narrowed the map and left a leaf, and the map is the base map again.
StartsFromBaseWitness ==
    /\ LinRun
    /\ explorer[1].baseConstraintsDict # EmptyDict
    /\ pc[1] \in {"idle", "loop"}
    /\ nRuns[1] >= 1
    /\ NodesOfKind(gen[1], "IfNode") # {}
    /\ ~finished(gen[1])
    /\ explorer[1].constraints = explorer[1].baseConstraintsDict

\* A product of two variables under a comparison, and a sum that is no
\* comparison.
NonLinear ==
    {BinExpr("<=", BinExpr("*", x(0), x(1)), Lit(0)), BinExpr("+", x(0), x(1))}

\* The target function is about to coerce a non-linear or unrecognized
\* condition under the linear-constraint explorer.
CoercingNonLinear ==
    /\ LinRun
    /\ pc[1] = "func"
    /\ request(1).type = "if"
    /\ func.pat \in {"product", "sum"}
    /\ Len(hist[1]) >= 1

\* C18: asked to decide or to note a non-linear or unrecognized expression (a
\* product of two variables, a non-comparison), the linear-constraint explorer
\* raises ValueError and is left as it was; the coercion that asked ends the
\* run with that error and leaves the tree and the explorer unchanged.
RejectsNonLinear ==
    /\ [](LinRun => \A e \in NonLinear :
            /\ explorerDecideIf(explorer[1], e) = AnswerRaise(explorer[1], "ValueError")
            /\ \A b \in BOOLEAN :
                  explorerNoteIf(explorer[1], e, b) = XRaise(explorer[1], "ValueError"))
    /\ [][CoercingNonLinear =>
            /\ pc'[1] = "error"
            /\ err'[1] = "ValueError"
            /\ gen' = gen
            /\ explorer' = explorer]_vars

\* The run has ended with ValueError on a non-linear condition met below a
\* decision already in the tree, with the constraints of the path still held.
RejectsNonLinearWitness ==
    /\ LinRun
    /\ func.pat \in {"product", "sum"}
    /\ pc[1] = "error"
    /\ err[1] = "ValueError"
    /\ NodesOfKind(gen[1], "IfNode") # {}
    /\ explorer[1].constraints # explorer[1].baseConstraintsDict

\* Asserting that the condition e has the value b is a constraint on a linear
\* combination that is not constant, in an operator the mode of te knows.
Assertable(e, b) ==
    /\ e.type # "Bool"
    /\ parseLinCmpExpr(e, te.ineqMode).err = ""
    /\ coeffsOf(e) # {}
    /\ ~b => convertNegOp(linOf(e).op, te.ineqMode) # KeyError

\* Asserting e = b contradicts what te holds: e is a boolean or a constant
\* comparison of the other value, or the interval stored for its linear
\* combination does not meet the interval asserted.
Contradicts(e, b) ==
    IF e.type = "Bool"
    THEN e.val # b
    ELSE IF parseLinCmpExpr(e, te.ineqMode).err = "" /\ coeffsOf(e) = {}
    THEN evalOp(0, linOf(e).op, linOf(e).rhs) # b
    ELSE /\ Assertable(e, b)
         /\ coeffsOf(e) \in DOMAIN te.constraints
         /\ isEmpty(IF b THEN trueInt2Of(e) ELSE falseInt2Of(e))

\* C19: infeasible path detection.  When the constraint noteIf adds through
\* addConstrToDict makes the interval of its linear combination empty, or is a
\* boolean or a constant comparison whose value is not the boolean asserted,
\* an Exception is raised and the constraint map is left exactly as it was; so
\* is it left by every other error of the call.  A base constraints list that
\* contradicts itself makes the constructor raise the same Exception.
InfeasibleRaises ==
    /\ [][last'.op = "noteIf" =>
            /\ Contradicts(last'.expr, last'.b) => last'.err = "Exception"
            /\ last'.err # "" => te' = te]_vars
    /\ [](baseDictOf(<<BinExpr(">", x(0), Lit(0)), XLeMinus2>>, te.ineqMode).err
            = "Exception")
    /\ [](baseDictOf(<<BoolConstr(FALSE)>>, te.ineqMode).err = "Exception")

\* noteIf has raised on a constraint whose interval does not meet the one
\* stored for its linear combination.
InfeasibleRaisesWitness ==
    /\ last.op = "noteIf"
    /\ last.err = "Exception"
    /\ Assertable(last.expr, last.b)
    /\ coeffsOf(last.expr) \in DOMAIN te.constraints
    /\ te.constraints # te.baseConstraintsDict

\* C20: coercing an Expr to boolean is routed to the active generator's
\* decideIf while a generator is installed, which it is throughout every
\* execution of the target function: the coercion hands back decideIf's value
\* and leaves the generator and its explorer as decideIf leaves them.  No
\* generator is installed before any run and after a run has returned
\* normally; a coercion made then fails with NotImplementedError and changes
\* no state.
CoercionRouted ==
    /\ [](pc[1] = "func" => globalTreeGen = 1)
    /\ [](pc[1] \in {"idle", "done"} => globalTreeGen = None)
    /\ [][pc[1] = "func" /\ request(1).type = "if" =>
            \E o \in {decideIf(gen[1], explorer[1], request(1).arg)} :
                /\ gen'[1] = o.gen
                /\ explorer'[1] = o.explorer
                /\ o.err = "" => hist'[1] = Append(hist[1], o.ret)
                /\ o.err # "" => pc'[1] = "error" /\ err'[1] = o.err]_vars
    /\ [][last'.op = "bool" =>
            /\ pc[1] \in {"idle", "done"}
            /\ last'.err = "NotImplementedError"
            /\ UNCHANGED <<func, driver, gen, explorer, globalTreeGen, pc, hist, ninfo, err,
                           nRuns, te, plain, ivs, built, parsed>>]_vars

\* A run has built a tree and returned normally, and a condition coerced
\* afterwards was refused.
CoercionRoutedWitness ==
    /\ last.op = "bool"
    /\ last.err = "NotImplementedError"
    /\ pc[1] = "done"
    /\ NumLeaves(gen[1]) >= 2
    /\ globalTreeGen = None

\* C21, as stated: the active-engine pointer installed at run start is cleared
\* at run end on every exit path of run / runOnce / iterateOnce: whenever no
\* call is under way, be it before a run, after a normal return or after the
\* call ended with an exception, Expr.globalTreeGen is None.
ClearedOnEveryExit ==
    pc[1] \in {"idle", "done", "error"} => globalTreeGen = None

\* The first node at or below id that is no InfoNode: what is left at id when
\* every InfoNode is replaced by its only kid.
RECURSIVE skipInfo(_, _)
skipInfo(ns, id) ==
    IF id = None
    THEN None
    ELSE IF ns[id].kind = "InfoNode"
    THEN skipInfo(ns, ns[id].kids[1])
    ELSE id

\* The subtree at id1 of heap ns1 with its InfoNodes spliced out is
\* structurally identical to the subtree at id2 of heap ns2.
RECURSIVE sameSpliced(_, _, _, _)
sameSpliced(ns1, id1, ns2, id2) ==
    \E j \in {skipInfo(ns1, id1)} :
        IF j = None \/ id2 = None
        THEN j = id2
        ELSE /\ ns1[j].kind = ns2[id2].kind
             /\ ns1[j].expr = ns2[id2].expr
             /\ ns1[j].b = ns2[id2].b
             /\ ns1[j].explored = ns2[id2].explored
             /\ Len(ns1[j].kids) = Len(ns2[id2].kids)
             /\ \A i \in DOMAIN ns1[j].kids :
                    sameSpliced(ns1, ns1[j].kids[i], ns2, ns2[id2].kids[i])

\* The function run for generator 1 reports a value: checkpoint(v) with a
\* generator installed, or a yield to iterateOnce.
Reporting ==
    /\ pc[1] = "func"
    /\ request(1).type = "info"
    /\ infoGen(1) # None

\* What a report leaves: the explorers untouched; on an existing InfoNode the
\* heap untouched and the generator one level down; at the frontier one new
\* InfoNode with a single empty slot, which the generator points at.
Recorded ==
    /\ explorer' = explorer
    /\ \A t \in Gens \ {infoGen(1)} : gen'[t] = gen[t]
    /\ \E s \in {gen[infoGen(1)]}, t \in {gen'[infoGen(1)]} :
          IF s.current # None
          THEN /\ t.nodes = s.nodes
               /\ pc'[1] = "func" => t.parent = s.current
          ELSE /\ Len(t.nodes) = Len(s.nodes) + 1
               /\ SubSeq(t.nodes, 1, Len(s.nodes)) =
                      [i \in 1..Len(s.nodes) |->
                          IF i = s.parent
                          THEN [s.nodes[i] EXCEPT !.kids[s.kidIndex + 1] = Len(t.nodes)]
                          ELSE s.nodes[i]]
               /\ t.nodes[Len(t.nodes)].kind = "InfoNode"
               /\ t.nodes[Len(t.nodes)].kids = <<None>>
               /\ t.parent = Len(t.nodes)
               /\ t.current = None

\* C22: checkpoint and yield values are recorded as single-slot InfoNodes
\* without influencing the decisions: a report neither consults nor notifies
\* the explorer, replaying an existing InfoNode creates no node, and after
\* corresponding runs the tree with its InfoNodes spliced out is identical to
\* the tree generated for the function with its checkpoint / yield calls
\* removed.
InfoTransparent ==
    /\ [][Reporting => Recorded]_vars
    /\ [](Corresponding =>
            /\ sameSpliced(gen[1].nodes, gen[1].root, gen[2].nodes, gen[2].root)
            /\ NodesOfKind(gen[2], "InfoNode") = {}
            /\ \A id \in NodesOfKind(gen[1], "InfoNode") :
                   Len(gen[1].nodes[id].kids) = 1)

InfoTransparentWitness ==
    /\ Corresponding
    /\ pc[1] = "done"
    /\ pc[2] = "done"
    /\ explorer[1].kind = "CachedTreeExplorer"
    /\ func.pat = "same"
    /\ Cardinality(NodesOfKind(gen[1], "InfoNode")) >= 4
    /\ Cardinality(NodesOfKind(gen[1], "FrozenIfNode")) >= 2
    /\ NumLeaves(gen[2]) = 2

\* The pairs of list positions (from 1) that selection sort of three elements
\* compares, in the order of the comparisons.
SortPositions == <<<<1, 2>>, <<1, 3>>, <<2, 3>>>>

\* The trivial explorer has driven the run loop over selectionSorted to its
\* end.
SortExplored == Trivial /\ func = SelectionSort /\ pc[1] = "done"

\* C23: selection sort of three distinct symbolic elements under the trivial
\* explorer: every run makes exactly 3 comparisons, the t-th of them between
\* the elements at the t-th of the positions (0,1), (0,2), (1,2) of the list
\* as the earlier comparisons left it; the finished tree has exactly 8
\* ReturnNodes, each below 3 IfNodes, and exactly 7 IfNodes.
SelectionSortTree ==
    /\ [][Trivial /\ func = SelectionSort /\ pc[1] = "func" /\ pc'[1] # "func"
            => pc'[1] # "error" /\ Len(hist[1]) = Len(SortPositions)]_vars
    /\ [](SortExplored =>
            /\ NumLeaves(gen[1]) = 8
            /\ Cardinality(NodesOfKind(gen[1], "IfNode")) = 7
            /\ TreeNodes(gen[1]) =
                   NodesOfKind(gen[1], "IfNode") \cup NodesOfKind(gen[1], "ReturnNode")
            /\ \A id \in NodesOfKind(gen[1], "ReturnNode") :
                   /\ Len(decisions(gen[1].nodes, id)) = Len(SortPositions)
                   /\ gen[1].nodes[id].expr = sortArray(decisions(gen[1].nodes, id))
            /\ \A id \in NodesOfKind(gen[1], "IfNode") :
                   \E h \in {decisions(gen[1].nodes, id)} :
                       /\ Len(h) < Len(SortPositions)
                       /\ gen[1].nodes[id].expr =
                              BinExpr(">", sortArray(h)[SortPositions[Len(h) + 1][1]],
                                           sortArray(h)[SortPositions[Len(h) + 1][2]]))

SelectionSortTreeWitness ==
    /\ SortExplored
    /\ NumLeaves(gen[1]) = 8
    /\ \E id \in NodesOfKind(gen[1], "ReturnNode") :
          gen[1].nodes[id].expr = <<x(2), x(1), x(0)>>

\* Both explorations of greedy(x, 2) have run to their end.
LptExplored == pc[1] = "done" /\ pc[2] = "done"

\* The first decision node of the tree of s: what the root's kid's kid is when
\* the first two nodes report the two unconditional assignments.
firstDecision(s) == s.nodes[s.nodes[s.root].kids[1]].kids[1]

\* Both outcomes of the condition of node id are possible under the base
\* ordering and the decisions committed above the node.
Unresolved(ns, id) ==
    \E b \in {committed(ns, id)} :
       \E f \in {feasible(explorer[1], b, ns[id].expr)} :
          /\ \E v \in f : holdsAt(ns[id].expr, v)
          /\ \E v \in f : ~holdsAt(ns[id].expr, v)

\* C24: greedy load balancing of four symbolic jobs on two machines.  With
\* the linear-constraint explorer seeded with x0 >= x1 >= x2 >= x3 the first
\* two assignments are reported with no decision node above or between them;
\* an IfNode is created only for a comparison the ordering and the earlier
\* decisions leave open, a comparison they resolve becomes a FrozenIfNode (the
\* first one, x1 <= x0, fixed at True); and the finished tree has strictly
\* fewer IfNodes than the tree of the trivial explorer for the same call.
LptPruned ==
    LptExplored =>
        /\ \A g \in Gens :
              /\ gen[g].nodes[gen[g].root].kind = "InfoNode"
              /\ gen[g].nodes[gen[g].root].expr = <<0, 0>>
              /\ gen[g].nodes[gen[g].nodes[gen[g].root].kids[1]].kind = "InfoNode"
              /\ gen[g].nodes[gen[g].nodes[gen[g].root].kids[1]].expr = <<1, 1>>
              /\ gen[g].nodes[firstDecision(gen[g])].expr = BinExpr("<=", x(1), x(0))
        /\ gen[1].nodes[firstDecision(gen[1])].kind = "FrozenIfNode"
        /\ gen[1].nodes[firstDecision(gen[1])].b
        /\ gen[2].nodes[firstDecision(gen[2])].kind = "IfNode"
        /\ \A id \in NodesOfKind(gen[1], "IfNode") : Unresolved(gen[1].nodes, id)
        /\ \A id \in NodesOfKind(gen[1], "FrozenIfNode") : ~Unresolved(gen[1].nodes, id)
        /\ Cardinality(NodesOfKind(gen[1], "IfNode")) <
               Cardinality(NodesOfKind(gen[2], "IfNode"))

LptPrunedWitness ==
    /\ LptExplored
    /\ Cardinality(NodesOfKind(gen[1], "IfNode")) = 1
    /\ Cardinality(NodesOfKind(gen[1], "FrozenIfNode")) = 1
    /\ Cardinality(NodesOfKind(gen[2], "IfNode")) = 3
    /\ NumLeaves(gen[1]) = 2
    /\ NumLeaves(gen[2]) = 4

\* The non-strict form of an inequality operator.
nonStrict(op) == CASE op = "<" -> "<=" [] op = ">" -> ">=" [] OTHER -> op

\* The strict form of an inequality operator.
strictForm(op) == CASE op = "<=" -> "<" [] op = ">=" -> ">" [] OTHER -> op

\* The operator of the negation of an inequality.
negation(op) ==
    CASE op = "<" -> ">=" [] op = "<=" -> ">" [] op = ">" -> "<=" [] op = ">=" -> "<"

\* The form in which mode m stores an inequality with operator op.
formIn(m, op) ==
    CASE m = "lenient" -> nonStrict(op)
      [] m = "strict" -> strictForm(op)
      [] OTHER -> op

\* The key under which the constraints on the variable v are stored.
varKey(v) == {<<v.name, 1>>}

\* The points an inequality v op c asserted as b allows, in the mode of te.
allowed(e, b) ==
    opToInterval(formIn(te.ineqMode, IF b THEN e.op ELSE negation(e.op)), e.rarg.val)

\* What the dict d holds for the variable v: an interval or nothing.
held(d, v) == IF varKey(v) \in DOMAIN d THEN {d[varKey(v)]} ELSE {}

\* What d must hold after v op c was asserted as b and accepted.
heldAfter(d, e, b) ==
    IF held(d, e.larg) = {}
    THEN {allowed(e, b)}
    ELSE {intersect(i, allowed(e, b)) : i \in held(d, e.larg)}

\* addConstrToDict was just called and returned.
Added == last.op = "addConstrToDict" /\ last.err = ""

\* C25: the inequality modes.  Every inequality addConstrToDict accepts, as
\* asserted or negated for the false branch, is stored as the interval of its
\* non-strict form in lenient mode, of its strict form in strict mode and of
\* the operator as written in exact mode, intersected with what the dict
\* held; it is refused exactly when that intersection is empty.  So in
\* lenient mode x > 2 and then x < 2 is accepted and leaves [2,2], in strict
\* mode y >= 2 and then y < 3 leaves (2,3).
ModesStored ==
    /\ [][last'.op = "addConstrToDict" =>
            \E e \in {last'.expr}, b \in {last'.b} :
               \E h \in heldAfter(te.constraints, e, b) :
                  IF isEmpty(h)
                  THEN last'.err = "Exception" /\ te'.constraints = te.constraints
                  ELSE /\ last'.err = ""
                       /\ te'.constraints = DictPut(te.constraints, varKey(e.larg), h)]_vars
    /\ [][/\ te.ineqMode = "lenient"
          /\ held(te.constraints, x(0)) = {opToInterval(">=", 2)}
          /\ last.expr = BinExpr(">", x(0), Lit(2)) /\ last.b /\ Added
          /\ last'.expr = BinExpr("<", x(0), Lit(2)) /\ last'.b
          => /\ last'.err = ""
             /\ held(te'.constraints, x(0)) = {Interval(Num(2), Num(2), TRUE, TRUE)}]_vars
    /\ [][/\ te.ineqMode = "strict"
          /\ last.expr = BinExpr(">=", x(1), Lit(2)) /\ last.b /\ Added
          /\ held(te.constraints, x(1)) = {Interval(Num(2), NoneNum, FALSE, FALSE)}
          /\ last'.expr = BinExpr("<", x(1), Lit(3)) /\ last'.b
          => /\ last'.err = ""
             /\ held(te'.constraints, x(1)) = {Interval(Num(2), Num(3), FALSE, FALSE)}]_vars

\* x > 2 and then x < 2 were accepted in lenient mode and left [2,2].
ModesStoredWitness ==
    /\ Added
    /\ te.ineqMode = "lenient"
    /\ last.expr = BinExpr("<", x(0), Lit(2))
    /\ last.b
    /\ held(te.constraints, x(0)) = {Interval(Num(2), Num(2), TRUE, TRUE)}

\* The points of Points an interval contains.
pointsOf(i) == {p \in Points : contains(i, p)}

\* The interval written [beg,end], (beg,end), ... in the tests' own numbers.
Iv(begClosed, beg, end, endClosed) == Interval(Num(2 * beg), Num(2 * end), begClosed, endClosed)

\* C26: Interval has the semantics of sets of reals.  For all intervals A, B
\* and every point, A.intersect(B) contains the point iff A and B both do;
\* isEmpty() is true iff no point is contained; A.isDisjoint(B) iff no point
\* lies in both.  So [2,4) & (3,5] is (3,4), [2,4) is disjoint from [4,5],
\* (2,2] is empty and [2,2] is not.
SetSemantics ==
    \A a \in ivs.a, b \in ivs.b :
        /\ isEmpty(a) <=> pointsOf(a) = {}
        /\ isDisjoint(a, b) <=> pointsOf(a) \cap pointsOf(b) = {}
        /\ \A c \in ivs.c :
              /\ pointsOf(c) = pointsOf(a) \cap pointsOf(b)
              /\ isEmpty(c) <=> pointsOf(c) = {}
              /\ a = Iv(TRUE, 2, 4, FALSE) /\ b = Iv(FALSE, 3, 5, TRUE)
                    => c = Iv(FALSE, 3, 4, FALSE)
        /\ a = Iv(TRUE, 2, 4, FALSE) /\ b = Iv(TRUE, 4, 5, TRUE) => isDisjoint(a, b)
        /\ a = Iv(FALSE, 2, 2, TRUE) => isEmpty(a)
        /\ a = Iv(TRUE, 2, 2, TRUE) => ~isEmpty(a)

\* [2,4) and (3,5] were intersected to (3,4), which contains 3.5 only.
SetSemanticsWitness ==
    /\ ivs.a = {Iv(TRUE, 2, 4, FALSE)}
    /\ ivs.b = {Iv(FALSE, 3, 5, TRUE)}
    /\ ivs.c = {Iv(FALSE, 3, 4, FALSE)}
    /\ \A c \in ivs.c : pointsOf(c) = {7}

\* The expression built explicitly with the same operator symbol and operand
\* order: BinExpr(op, larg, rarg).
manual == BinExpr(built.op, built.larg, built.rarg)

\* C27, as stated: for every overloaded binary operator and for Expr or
\* literal operands on either side, the expression built with the operator
\* has the same structural key as BinExpr(op, larg, rarg) built with the same
\* operator symbol and operand order.
SameKeyAsManual ==
    \A a \in built.automatic : key(a) = key(manual)

\* A comparison of an expression with itself: its variables cancel.
Cancels(e) == e.type = "BinExpr" /\ e.larg = e.rarg

\* A constraint with no variables left.
ConstantConstr(e) == e.type = "Bool" \/ Cancels(e)

\* The value of such a constraint: the literal, or whether the operator, in
\* the form the mode of te gives it, admits equality.
constantOf(e) ==
    IF e.type = "Bool" THEN e.val ELSE formIn(te.ineqMode, e.op) \in {"<=", ">=", "=="}

\* C28: a constraint with no remaining variables (a boolean literal, x >= x,
\* x > x) never adds or changes an entry of the constraint map: noteIf
\* (addConstrToDict) leaves the explorer as it is, returning when the constant
\* equals the asserted boolean and raising otherwise, and decideIf leaves it
\* as it is and answers the evaluated constant with exploreOtherSide false.
ConstantsLeaveMap ==
    /\ [][last'.op = "noteIf" /\ ConstantConstr(last'.expr) =>
            /\ te' = te
            /\ last'.err = IF constantOf(last'.expr) = last'.b THEN "" ELSE "Exception"]_vars
    /\ [][last'.op = "decideIf" /\ ConstantConstr(last'.expr) =>
            /\ te' = te
            /\ last'.err = ""
            /\ last'.ret = constantOf(last'.expr)
            /\ ~last'.checkOther]_vars
    /\ [](te.ineqMode = "exact" =>
            /\ ~constantOf(BinExpr(">", x(0), x(0)))
            /\ constantOf(BinExpr(">=", x(0), x(0))))

\* decideIf(x > x) answered (False, False) and left a map with two entries
\* as it was.
ConstantsLeaveMapWitness ==
    /\ last.op = "decideIf"
    /\ last.expr = BinExpr(">", x(0), x(0))
    /\ ~last.ret
    /\ ~last.checkOther
    /\ last.err = ""
    /\ te.ineqMode = "exact"
    /\ Cardinality(DOMAIN te.constraints) = 2

\* The function run for generator 1 coerces a condition at the frontier: the
\* generator stands on no node.
AtFrontier ==
    /\ pc[1] = "func"
    /\ request(1).type = "if"
    /\ globalTreeGen = 1
    /\ gen[1].current = None

\* The heap ns with node id stored in slot i of node p (nowhere when p is None).
stored(ns, p, i, id) ==
    [j \in DOMAIN ns |-> IF j = p THEN [ns[j] EXCEPT !.kids[i + 1] = id] ELSE ns[j]]

\* What the decision leaves of generator s as t when the explorer answered a.
Created(s, t, a) ==
    \E id \in {Len(s.nodes) + 1} :
        /\ Len(t.nodes) = id
        /\ t.nodes[id].kind = IF a.checkOther THEN "IfNode" ELSE "FrozenIfNode"
        /\ t.nodes[id].kids = IF a.checkOther THEN <<None, None>> ELSE <<None>>
        /\ ~a.checkOther => t.nodes[id].b = a.b
        /\ t.nodes[id].expr = request(1).arg
        /\ t.nodes[id].parent = s.parent
        /\ ~t.nodes[id].explored
        /\ SubSeq(t.nodes, 1, Len(s.nodes)) = stored(s.nodes, s.parent, s.kidIndex, id)
        /\ s.parent # None => s.nodes[s.parent].kids[s.kidIndex + 1] = None
        /\ t.root = IF s.parent = None THEN id ELSE s.root
        /\ t.parent = id
        /\ t.current = None
        /\ t.kidIndex = IF a.checkOther THEN BoolToInt(a.b) ELSE 0

\* C29: decideIf at the frontier consults the explorer's decideIf once; when
\* that returns, a new node is created, an IfNode with two empty slots if
\* exploreOtherSide is true and else a FrozenIfNode fixed at the value with
\* one empty slot, and stored in the empty slot recorded for the parent (as
\* the root when there is no parent); the generator then points at the new
\* node's slot for the value (slot 0 of a FrozenIfNode) with current None,
\* and the value is returned to the function.
FrontierDecides ==
    [][AtFrontier =>
         \E a \in {explorerDecideIf(explorer[1], request(1).arg)} :
            /\ explorer' = [explorer EXCEPT ![1] = a.x]
            /\ IF a.err # ""
               THEN gen' = gen /\ pc'[1] = "error" /\ err'[1] = a.err /\ hist' = hist
               ELSE /\ Created(gen[1], gen'[1], a)
                    /\ gen'[2] = gen[2]
                    /\ hist' = [hist EXCEPT ![1] = Append(@, a.b)]
                    /\ pc' = pc]_vars

\* A FrozenIfNode fixed at True was just created below another node, and the
\* generator points at its slot 0.
FrontierDecidesWitness ==
    /\ pc[1] = "func"
    /\ gen[1].current = None
    /\ gen[1].parent # None
    /\ gen[1].kidIndex = 0
    /\ gen[1].nodes[gen[1].parent].kind = "FrozenIfNode"
    /\ gen[1].nodes[gen[1].parent].b
    /\ gen[1].nodes[gen[1].parent].kids = <<None>>
    /\ gen[1].nodes[gen[1].parent].parent # None
    /\ hist[1] # << >>
    /\ hist[1][Len(hist[1])]

\* The function run for generator 1 coerces a condition while the generator
\* stands on an IfNode with exactly one explored slot.
ReplayingHalfExplored ==
    /\ Replaying(1)
    /\ globalTreeGen = 1
    /\ replayed.kind = "IfNode"
    /\ \E i \in 1..2 :
         /\ replayed.kids[i] # None
         /\ gen[1].nodes[replayed.kids[i]].explored
         /\ replayed.kids[3 - i] # None => ~gen[1].nodes[replayed.kids[3 - i]].explored

\* The slot (0: False, 1: True) of the node replayed that is not explored.
openSlot ==
    CHOOSE i \in 0..1 :
        replayed.kids[i + 1] # None => ~gen[1].nodes[replayed.kids[i + 1]].explored

\* C30: replaying an IfNode with exactly one explored slot, decideIf returns
\* the boolean of the other slot, leaves the explorer as one noteIf(expr,
\* that boolean) leaves it (its decideIf is not called), descends into that
\* slot and creates no node; when noteIf raises, nothing else changes.
ReplaysOpenSide ==
    [][ReplayingHalfExplored =>
         \E n \in {explorerNoteIf(explorer[1], request(1).arg, openSlot = 1)} :
            /\ explorer' = [explorer EXCEPT ![1] = n.x]
            /\ IF n.err # ""
               THEN gen' = gen /\ pc'[1] = "error" /\ err'[1] = n.err /\ hist' = hist
               ELSE /\ gen' = [gen EXCEPT ![1] =
                                  [@ EXCEPT !.parent = gen[1].current,
                                            !.current = replayed.kids[openSlot + 1],
                                            !.kidIndex = openSlot]]
                    /\ hist' = [hist EXCEPT ![1] = Append(@, openSlot = 1)]
                    /\ pc' = pc]_vars

\* The False side of the root was explored; the run after that was handed
\* True at the root, went down its slot 1, which was empty, and the cached
\* explorer was told of it.
ReplaysOpenSideWitness ==
    /\ pc[1] = "func"
    /\ explorer[1].kind = "CachedTreeExplorer"
    /\ hist[1] = <<TRUE>>
    /\ gen[1].parent = gen[1].root
    /\ gen[1].kidIndex = 1
    /\ gen[1].current = None
    /\ gen[1].nodes[gen[1].root].kind = "IfNode"
    /\ gen[1].nodes[gen[1].root].kids[1] # None
    /\ gen[1].nodes[gen[1].nodes[gen[1].root].kids[1]].explored
    /\ DOMAIN explorer[1].cache # {}

\* The function run for generator 1 coerces a condition while the generator
\* stands on a FrozenIfNode whose slot is not explored yet.
ReplayingFrozen ==
    /\ Replaying(1)
    /\ globalTreeGen = 1
    /\ replayed.kind = "FrozenIfNode"
    /\ replayed.kids[1] # None => ~gen[1].nodes[replayed.kids[1]].explored

\* C31: replaying a FrozenIfNode, decideIf hands the node's fixed b back,
\* leaves the explorer as one noteIf(expr, b) leaves it (its decideIf is not
\* consulted), descends into the node's single slot and creates no node; when
\* noteIf raises, nothing else changes.
ReplaysFrozen ==
    [][ReplayingFrozen =>
         \E n \in {explorerNoteIf(explorer[1], request(1).arg, replayed.b)} :
            /\ explorer' = [explorer EXCEPT ![1] = n.x]
            /\ IF n.err # ""
               THEN gen' = gen /\ pc'[1] = "error" /\ err'[1] = n.err /\ hist' = hist
               ELSE /\ gen' = [gen EXCEPT ![1] =
                                  [@ EXCEPT !.parent = gen[1].current,
                                            !.current = replayed.kids[1],
                                            !.kidIndex = 0]]
                    /\ hist' = [hist EXCEPT ![1] = Append(@, replayed.b)]
                    /\ pc' = pc]_vars

\* A later run was handed True at a FrozenIfNode fixed at True and stands on
\* the unfinished node in its slot.
ReplaysFrozenWitness ==
    /\ pc[1] = "func"
    /\ hist[1] = <<TRUE>>
    /\ gen[1].parent # None
    /\ gen[1].kidIndex = 0
    /\ gen[1].current # None
    /\ gen[1].nodes[gen[1].parent].kind = "FrozenIfNode"
    /\ gen[1].nodes[gen[1].parent].b
    /\ ~gen[1].nodes[gen[1].current].explored
    /\ NumLeaves(gen[1]) >= 1

\* The function run for generator 1 returns at the frontier.
AtEnd ==
    /\ pc[1] = "func"
    /\ request(1).type = "ret"
    /\ gen[1].current = None

\* No slot of node n of heap ns is unexplored, the kid below counted as
\* explored.
full(ns, n, below) ==
    \A i \in DOMAIN ns[n].kids :
        /\ ns[n].kids[i] # None
        /\ ns[n].kids[i] = below \/ ns[ns[n].kids[i]].explored

\* The ancestors marked explored on the way up from n: all up to, and not
\* including, the first that still has an unexplored slot.
RECURSIVE markedUp(_, _, _)
markedUp(ns, n, below) ==
    IF n = None
    THEN {}
    ELSE IF full(ns, n, below)
    THEN {n} \cup markedUp(ns, ns[n].parent, n)
    ELSE {}

\* What reportEnd leaves of generator s as t.
LeafAttached(s, t) ==
    \E id \in {Len(s.nodes) + 1} :
      \E ns \in {stored(s.nodes, s.parent, s.kidIndex, id)} :
        /\ Len(t.nodes) = id
        /\ t.nodes[id] = ReturnNode(request(1).arg, s.parent)
        /\ s.parent # None => s.nodes[s.parent].kids[s.kidIndex + 1] = None
        /\ \A j \in DOMAIN s.nodes :
              t.nodes[j] =
                 [ns[j] EXCEPT !.explored = @ \/ j \in markedUp(ns, s.parent, id)]
        /\ t.root = IF s.parent = None THEN id ELSE s.root
        /\ t.parent = None
        /\ t.current = t.root
        /\ t.kidIndex = NoKid

\* C32: reportEnd attaches a ReturnNode holding the return value at the
\* current empty slot (as root when there is no parent), marks explored the
\* ancestors from its parent upward as far as, and not including, the first
\* that still has an unexplored slot, resets the pointers to parent = None,
\* current = root, kidIndex = None and leaves the explorer as one noteReturn
\* leaves it; that is how every run that returns ends, once.
ReportEndAttaches ==
    /\ [][AtEnd =>
            /\ LeafAttached(gen[1], gen'[1])
            /\ gen'[2] = gen[2]
            /\ explorer' = [explorer EXCEPT ![1] = explorerNoteReturn(explorer[1])]
            /\ pc'[1] \in {"idle", "loop"}
            /\ hist' = hist]_vars
    /\ [][pc[1] = "func" /\ pc'[1] \in {"idle", "loop"} => AtEnd]_vars
    /\ [][pc[1] = "func" /\ ~(request(1).type = "ret") /\ pc'[1] = "func" =>
            \A j \in DOMAIN gen[1].nodes :
                gen'[1].nodes[j].explored = gen[1].nodes[j].explored]_vars

\* A run has ended below an IfNode that is now explored and whose own parent
\* still has an unexplored slot: the marking stopped there.
ReportEndAttachesWitness ==
    /\ pc[1] \in {"idle", "loop"}
    /\ gen[1].current = gen[1].root
    /\ gen[1].parent = None
    /\ \E id \in NodesOfKind(gen[1], "ReturnNode") :
         \E p \in {gen[1].nodes[id].parent} :
            /\ p # None
            /\ gen[1].nodes[p].explored
            /\ gen[1].nodes[p].kind = "IfNode"
            /\ gen[1].nodes[p].parent # None
            /\ ~gen[1].nodes[gen[1].nodes[p].parent].explored

\* The internal nodes of the tree of s that are not explored.
Unexplored(s) == {n \in TreeNodes(s) : s.nodes[n].kids # << >> /\ ~s.nodes[n].explored}

\* The unexplored internal nodes form one chain that starts at the root: the
\* parent of each is one of them, and no node has two of them as kids.
SingleChain(s) ==
    \A n \in Unexplored(s) :
        /\ s.nodes[n].parent # None => s.nodes[n].parent \in Unexplored(s)
        /\ Cardinality({i \in DOMAIN s.nodes[n].kids :
                           s.nodes[n].kids[i] \in Unexplored(s)}) <= 1

\* Generator 1 is between runs: reportEnd has returned, or no run was made.
BetweenRuns == pc[1] \in {"idle", "loop", "done"}

\* C33: false-first depth-first order.  With a built-in explorer, in every
\* reachable state the true slot (slot 1) of each IfNode is non-empty only if
\* its false slot (slot 0) holds a fully explored subtree; so after every
\* reportEnd the unexplored internal nodes form a single chain starting at
\* the root.
FalseFirstOrder ==
    explorer[1].kind \in BuiltIn =>
        /\ \A n \in NodesOfKind(gen[1], "IfNode") :
              gen[1].nodes[n].kids[2] # None =>
                  /\ gen[1].nodes[n].kids[1] # None
                  /\ gen[1].nodes[gen[1].nodes[n].kids[1]].explored
        /\ BetweenRuns => SingleChain(gen[1])

\* Between runs, below an unexplored root, an IfNode has an explored false
\* side and an unfinished subtree on its true side that holds a leaf.
FalseFirstOrderWitness ==
    /\ explorer[1].kind \in BuiltIn
    /\ BetweenRuns
    /\ \E n \in NodesOfKind(gen[1], "IfNode") :
          /\ n # gen[1].root
          /\ gen[1].nodes[n].kids[2] \in Unexplored(gen[1])
          /\ gen[1].nodes[gen[1].nodes[n].kids[1]].explored
          /\ Cardinality(Unexplored(gen[1])) >= 3

\* C34: path faithfulness.  The booleans handed back to the target function
\* during the run that creates a ReturnNode are the branch labels on the path
\* from the root to that leaf, in order (the slot of each IfNode, the fixed b
\* of each FrozenIfNode); so every leaf holds what the function returns when
\* handed the labels of its path.
PathFaithful ==
    /\ [][AtEnd => decisions(gen'[1].nodes, Len(gen'[1].nodes)) = hist[1]]_vars
    /\ [](\A id \in NodesOfKind(gen[1], "ReturnNode") :
             gen[1].nodes[id].expr = result(func, decisions(gen[1].nodes, id)))
    /\ [](pc[1] = "func" /\ globalTreeGen = 1 /\ gen[1].parent # None =>
             \E kid \in {gen[1].nodes[gen[1].parent].kids[gen[1].kidIndex + 1]} :
                 kid # None => decisions(gen[1].nodes, kid) = hist[1])

\* A leaf was created by a run that was handed True, through the slot 1 of
\* an IfNode, and then False, by a FrozenIfNode.
PathFaithfulWitness ==
    /\ BetweenRuns
    /\ \E id \in NodesOfKind(gen[1], "ReturnNode") :
          /\ decisions(gen[1].nodes, id) = <<TRUE, FALSE>>
          /\ gen[1].nodes[gen[1].nodes[id].parent].kind = "FrozenIfNode"
          /\ func.info = "none"
          /\ gen[1].nodes[gen[1].nodes[gen[1].nodes[id].parent].parent].kind = "IfNode"

\* The boolean that decideIf hands to noteIf when it replays the decision
\* node the generator stands on (lines 55-57 and 61-62).
replayB == IF replayed.kind = "FrozenIfNode" THEN replayed.b ELSE openSlot = 1

\* C35: with a built-in explorer driven by the run loop no engine error is
\* reachable: when the function returns the generator is at the frontier
\* (current is None), no decision node replayed has all its slots explored,
\* no existing IfNode gets the answer exploreOtherSide = false, noteIf does
\* not raise during replay, and no call ends with an AssertionError or with
\* the impossible-scenario Exception.
NoEngineError ==
    BuiltInRun =>
        /\ pc[1] = "func" /\ request(1).type = "ret" => gen[1].current = None
        /\ ~NoneUnexplored
        /\ ~Inconsistent
        /\ Replaying(1) /\ replayed.kind \in {"IfNode", "FrozenIfNode"} =>
              explorerNoteIf(explorer[1], request(1).arg, replayB).err = ""
        /\ Replaying(1) => replayed.kind \in {"IfNode", "FrozenIfNode"}
        /\ err[1] \notin {"AssertionError", "Exception"}

\* The linear-constraint explorer is notified of the True side of a replayed
\* IfNode in a run after the first, and the constraint is new to its map.
NoEngineErrorWitness ==
    /\ BuiltInRun
    /\ explorer[1].kind = "LinConstrTreeExplorer"
    /\ Replaying(1)
    /\ replayed.kind = "IfNode"
    /\ gen[1].parent # None
    /\ replayB
    /\ explorerNoteIf(explorer[1], request(1).arg, replayB).x # explorer[1]

\* C36: every interval in the linear-constraint explorer's constraint map
\* (and in its base map) is non-empty in every reachable state, in each
\* inequality mode, whatever decideIf / noteIf / noteReturn calls were made;
\* so the assertion of decideIf on the stored interval never fails.
StoredNonEmpty ==
    /\ \A k \in DOMAIN te.constraints : ~isEmpty(te.constraints[k])
    /\ \A k \in DOMAIN te.baseConstraintsDict : ~isEmpty(te.baseConstraintsDict[k])
    /\ last.err # "AssertionError"

\* In a mode other than exact a decideIf was forced to True, its false side
\* being empty, and stored an interval bounded on both sides.
StoredNonEmptyWitness ==
    /\ te.ineqMode # "exact"
    /\ last.op = "decideIf"
    /\ last.err = ""
    /\ last.ret
    /\ ~last.checkOther
    /\ \E k \in DOMAIN te.constraints :
          /\ te.constraints[k].beg # NoneNum
          /\ te.constraints[k].end # NoneNum
          /\ k \notin DOMAIN te.baseConstraintsDict

\* ----------------------------------------- parseLinCmpExpr called directly
\* test.py, LinCmpExprTest: the caller writes a comparison of two linear terms
\* and parses it in exact mode.

ParseVars == {x(0), x(1)}

\* A variable, its negation, and its products with a literal on either side.
ParseMonomials ==
    ParseVars \cup {UnExpr("-", a) : a \in ParseVars}
              \cup {BinExpr("*", Lit(c), a) : c \in {-1, 0, 2}, a \in ParseVars}
              \cup {BinExpr("*", a, Lit(c)) : c \in {-1, 2}, a \in ParseVars}

\* The terms added and subtracted.
ParseSummands == ParseVars \cup {Lit(1), UnExpr("-", x(0)), BinExpr("*", Lit(2), x(1))}

ParseSums == {BinExpr(op, a, b) : op \in {"+", "-"}, a \in ParseSummands, b \in ParseSummands}

\* The left-hand sides: monomials, sums and differences, and a sum negated,
\* multiplied by a literal, or continued.
ParseTerms ==
    ParseMonomials \cup {a \in ParseSums : isExpr(a.larg) \/ isExpr(a.rarg)}
        \cup {UnExpr("-", BinExpr(op, x(0), x(1))) : op \in {"+", "-"}}
        \cup {BinExpr("*", Lit(-2), BinExpr(op, x(0), x(1))) : op \in {"+", "-"}}
        \cup {BinExpr(op, BinExpr("-", x(0), x(1)), a) : op \in {"+", "-"}, a \in ParseVars}

\* The right-hand sides.
ParseRights == ParseVars \cup {Lit(0), Lit(2), Lit(-1), BinExpr("+", x(0), x(1))}

\* parsed.lin = parseLinCmpExpr(parsed.expr, IneqMode.exact)
Parse ==
    /\ parsed.lin = {}
    /\ parsed' = [parsed EXCEPT !.lin = {parseLinCmpExpr(parsed.expr, "exact")}]
    /\ last' = [NoCall EXCEPT !.op = "parseLinCmpExpr", !.expr = parsed.expr]
    /\ UNCHANGED <<func, driver, gen, explorer, globalTreeGen, pc, hist, ninfo, err,
                   nRuns, te, plain, ivs, built>>

NextParse == Parse

InitParse ==
    /\ Start
    /\ func = [pat |-> "indep", k |-> 0, exit |-> "never", info |-> "none"]
    /\ driver = "runOnce"
    /\ te.kind = "TreeExplorer"
    /\ plain = {}
    /\ ivs = NoIntervals
    /\ built = NoBuilt
    /\ \E op \in DOMAIN FLIP_OP, l \in ParseTerms, r \in ParseRights :
          parsed = [expr |-> BinExpr(op, l, r), lin |-> {}]

SpecParse == InitParse /\ [][NextParse]_vars

\* The value of the linear combination with coefficients coeffMap under the
\* assignment v.
RECURSIVE combination(_, _)
combination(coeffMap, v) ==
    IF DOMAIN coeffMap = {}
    THEN 0
    ELSE LET k == CHOOSE j \in DOMAIN coeffMap : TRUE
         IN coeffMap[k] * v[k]
              + combination([j \in DOMAIN coeffMap \ {k} |-> coeffMap[j]], v)

\* The assignments of values to the variables x0 and x1.
Assignments == [{a.name : a \in ParseVars} -> Dom]

\* C37: parsing preserves meaning.  In exact mode parseLinCmpExpr returns,
\* for a comparison of linear terms (variables, literals, +, -, unary -,
\* products with a literal), a canonical form (coeffMap, op, rhs) that holds
\* under exactly the assignments under which the comparison holds; it has no
\* zero coefficient, and the coefficient of its first variable is positive.
ParsePreservesMeaning ==
    \A p \in parsed.lin :
        /\ p.err = ""
        /\ \A v \in Assignments :
              holdsAt(parsed.expr, v)
                  <=> evalOp(combination(p.lin.coeffMap, v), p.lin.op, p.lin.rhs)
        /\ \A k \in DOMAIN p.lin.coeffMap : p.lin.coeffMap[k] # 0
        /\ DOMAIN p.lin.coeffMap # {} =>
              p.lin.coeffMap[argReprMin(DOMAIN p.lin.coeffMap)] > 0

\* x0 - x1 < x0 was parsed: x0 was dropped and the sign flipped, x1 > 0.
ParsePreservesMeaningWitness ==
    /\ parsed.expr = BinExpr("<", BinExpr("-", x(0), x(1)), x(0))
    /\ \E p \in parsed.lin :
          /\ p.err = ""
          /\ p.lin.coeffMap = DictPut(EmptyDict, 1, 1)
          /\ p.lin.op = ">"
          /\ p.lin.rhs = 0

\* C38: an equality constraint is recorded faithfully.  After noteIf has
\* added (linear combination) == c with the value True, the interval stored
\* for that combination holds the point c and no other, so that a later
\* comparison on the combination is forced by the value c.
EqualityRecorded ==
    /\ last.op = "noteIf"
    /\ last.b
    /\ last.err = ""
    /\ last.expr.type = "BinExpr"
    /\ last.expr.op = "=="
    => \A p \in Dom :
          contains(te.constraints[coeffsOf(last.expr)], p) <=> p = linOf(last.expr).rhs

\* ------------------------------------------------------- nested generators
\* The target function explored by generator 1 itself drives generator 2,
\* between two of its coercions: it calls run (or, with the other drivers,
\* runOnce or genFunc2dtree) on a fresh generator 2 over the same function
\* and goes on when that call has returned.  The two generators share
\* Expr.globalTreeGen (expr.py, line 10).

\* The call that drives g is on the stack, under way.
OnStack(g) == pc[g] \in {"loop", "func"}

\* rrtg.py, lines 110 and 116 / genFunc2dtree, line 156, called by the target
\* function that g runs, on the other generator
EnterNested(g) ==
    /\ g = 1
    /\ pc[g] = "func"
    /\ hist[g] # << >>
    /\ request(g).type = "if"
    /\ pc[other(g)] = "idle"
    /\ nRuns[other(g)] = 0
    /\ IF driverOf(other(g)) = "runOnce"
       THEN /\ pc' = [pc EXCEPT ![other(g)] = "func"]
            /\ nRuns' = [nRuns EXCEPT ![other(g)] = @ + 1]
            /\ globalTreeGen' = other(g)
       ELSE /\ pc' = [pc EXCEPT ![other(g)] = "loop"]
            /\ globalTreeGen' = IF driverOf(other(g)) = "run" THEN other(g)
                                ELSE globalTreeGen
            /\ UNCHANGED nRuns
    /\ UNCHANGED <<func, driver, gen, explorer, hist, ninfo, err>>
    /\ Quiet

\* The nested call has raised: the exception leaves the target function that
\* made it, and with it the call that drives g.
Unwind(g) ==
    /\ pc[g] = "func"
    /\ pc[other(g)] = "error"
    /\ Raise(g, err[other(g)])
    /\ UNCHANGED <<func, driver, gen, explorer, globalTreeGen, hist, ninfo, nRuns>>
    /\ Quiet

\* The frame that runs: generator 2's call while it is on the stack, else
\* generator 1's, which the caller makes at top level.
Runs(g) ==
    IF g = 1
    THEN ~OnStack(2) /\ ~(pc[1] = "func" /\ pc[2] = "error")
    ELSE OnStack(2)

NextNested == \E g \in Gens : (Runs(g) /\ Step(g)) \/ EnterNested(g) \/ Unwind(g)

SpecNested == Init /\ [][NextNested]_vars

\* C39, as stated: throughout a call to run on generator 1, every coercion
\* made by its target function is routed to generator 1's decideIf (it hands
\* back that decideIf's value and leaves generator 1 and its explorer as that
\* decideIf leaves them), also when the function has run generator 2 to
\* completion between two coercions.
RoutedWhenNested ==
    [][/\ driver = "run"
       /\ pc[1] = "func"
       /\ request(1).type = "if"
       /\ pc[2] # "error"
       /\ <<hist'[1], pc'[1]>> # <<hist[1], pc[1]>>
       => \E o \in {decideIf(gen[1], explorer[1], request(1).arg)} :
             /\ gen'[1] = o.gen
             /\ explorer'[1] = o.explorer
             /\ o.err = "" => hist'[1] = Append(hist[1], o.ret)
             /\ o.err # "" => pc'[1] = "error" /\ err'[1] = o.err]_vars

====
